---- MODULE Spec2Model ----
(***************************************************************************)
(* A model of bootstrap.py: the semantic-version engine (PreRelease,       *)
(* Semver, SemverRange), the index lookup (crate_info_from_index), the     *)
(* dependency resolver (Crate.resolve and the worklist loop of __main__)   *)
(* and the build walk (Crate.build).                                       *)
(*                                                                         *)
(* Strings are sequences of one-character strings, so that parsing and     *)
(* printing are computed character by character.  Python's None for a      *)
(* regex group that did not take part in the match is the empty sequence:  *)
(* every group of SEMVER and SV_RANGE matches at least one character.      *)
(* A Python bool that may instead be an exception is one of the strings    *)
(* "True", "False", "RuntimeError".                                        *)
(***************************************************************************)
EXTENDS Integers, Sequences, FiniteSets, TLC

VARIABLES
  sv1,  \* a version string handed to Semver()
  sv2,  \* a second version string
  cmp,  \* the results of comparing Semver(sv1) with Semver(sv2)
  rt,   \* Semver(sv1), its string form, and that string parsed again
  req,  \* a range string handed to SemverRange()
  rng,  \* SemverRange(req), its bounds, and compare(sv1)
  idir, \* the registry index: package name -> records of its file, in order
  found, \* what crate_info_from_index returned for req
  manifests,  \* directory -> the manifest of the package unpacked there
  disk,       \* the target directory: unpacked sources, compiled files
  heap,       \* the Crate objects made so far
  UNRESOLVED, \* the worklist, of places in heap
  CRATES,     \* the resolved registry: str(crate) -> place in heap
  BUILT,      \* the built registry: str(crate) -> str(by)
  pc,         \* where __main__ is
  cur,        \* the resolve() in progress
  stack,      \* the build() calls in progress
  calls,      \* str(self) of every build() call so far, in order
  runs,       \* the child processes run so far, in order
  dls,        \* the archives downloaded so far, in order
  first,      \* what an earlier run on the same inputs did, if there was one
  script      \* a build script's output on its own, and what the runner gave

pureVars == <<sv1, sv2, cmp, rt, req, rng, found>>

runVars ==
  <<manifests, disk, heap, UNRESOLVED, CRATES, BUILT, pc, cur, stack, calls,
    runs, dls, first, script>>

vars == <<pureVars, idir, runVars>>

\* no run of __main__: test_semver, or a function on its own
NoRun ==
  /\ manifests = <<>>
  /\ disk = [dirs |-> {}, files |-> {}]
  /\ heap = <<>>
  /\ UNRESOLVED = <<>>
  /\ CRATES = <<>>
  /\ BUILT = <<>>
  /\ pc = "test"
  /\ cur = [id |-> 0, di |-> 0]
  /\ stack = <<>>
  /\ calls = <<>>
  /\ runs = <<>>
  /\ dls = <<>>
  /\ first = [done |-> FALSE]
  /\ script = [done |-> FALSE]

None == <<>>

(***************************************************************************)
(* Characters.  AsciiOrder lists the characters of the model in byte       *)
(* order; Ord is order-isomorphic to Python's ord on them.                 *)
(***************************************************************************)
AsciiOrder ==
  <<"*", "+", "-", ".", "0", "1", "2", "3", "4", "5", "6", "7", "8", "9",
    "<", "=", ">", "A", "B", "^", "a", "b", "e", "h", "l", "p", "t", "x",
    "y", "~">>

Ord(c) == CHOOSE i \in 1..Len(AsciiOrder) : AsciiOrder[i] = c

DigitChars == {"0", "1", "2", "3", "4", "5", "6", "7", "8", "9"}

NonZeroDigitChars == DigitChars \ {"0"}

\* [0-9A-Za-z-] of SEMVER and SV_RANGE, cut to the characters of the model
IdentChars ==
  DigitChars \cup {"A", "B", "a", "b", "e", "h", "l", "p", "t", "x", "y", "-"}

DigitVal(c) == Ord(c) - Ord("0")

\* str.isdigit()
isdigit(s) == Len(s) > 0 /\ \A i \in 1..Len(s) : s[i] \in DigitChars

\* int(s) of a string of decimal digits
RECURSIVE int(_)
int(s) ==
  IF Len(s) = 0 THEN 0
  ELSE 10 * int(SubSeq(s, 1, Len(s) - 1)) + DigitVal(s[Len(s)])

\* str(n) of a non-negative integer
RECURSIVE str(_)
str(n) ==
  IF n < 10 THEN <<AsciiOrder[Ord("0") + n]>>
  ELSE str(n \div 10) \o <<AsciiOrder[Ord("0") + (n % 10)]>>

\* l < r on Python byte strings
RECURSIVE StrLt(_, _)
StrLt(l, r) ==
  IF Len(r) = 0 THEN FALSE
  ELSE IF Len(l) = 0 THEN TRUE
  ELSE IF Ord(l[1]) < Ord(r[1]) THEN TRUE
  ELSE IF Ord(l[1]) > Ord(r[1]) THEN FALSE
  ELSE StrLt(Tail(l), Tail(r))

\* the index just after the run of characters of chars that starts at i
RECURSIVE RunEnd(_, _, _)
RunEnd(s, i, chars) ==
  IF i <= Len(s) /\ s[i] \in chars THEN RunEnd(s, i + 1, chars) ELSE i

\* s.find(c, i): the index of the first c at or after i, 0 when there is none
RECURSIVE find(_, _, _)
find(s, c, i) ==
  IF i > Len(s) THEN 0 ELSE IF s[i] = c THEN i ELSE find(s, c, i + 1)

\* s.split('.'), k being the index of the first dot of s (0: none)
RECURSIVE split_at(_, _)
split_at(s, k) ==
  IF k = 0 THEN <<s>>
  ELSE <<SubSeq(s, 1, k - 1)>>
         \o split_at(SubSeq(s, k + 1, Len(s)), find(SubSeq(s, k + 1, Len(s)), ".", 1))

split(s) == split_at(s, find(s, ".", 1))

\* '.'.join(c)
RECURSIVE join(_)
join(c) ==
  IF Len(c) = 0 THEN <<>>
  ELSE IF Len(c) = 1 THEN c[1]
  ELSE c[1] \o <<".">> \o join(Tail(c))

(***************************************************************************)
(* The regular expressions.  Each helper returns the index just after the  *)
(* longest match that starts at i, or 0 when nothing matches there.  The   *)
(* tokens that may follow a number or an identifier list never start with  *)
(* a character the token itself accepts, so the greedy match is the only   *)
(* one a backtracking matcher can succeed with.                            *)
(***************************************************************************)
\* (?:0|[1-9][0-9]*)
NumEnd(s, i) ==
  IF i > Len(s) THEN 0
  ELSE IF s[i] = "0" THEN i + 1
  ELSE IF s[i] \in NonZeroDigitChars THEN RunEnd(s, i + 1, DigitChars)
  ELSE 0

\* (?:\*|0|[1-9][0-9]*)
WildNumEnd(s, i) ==
  IF i <= Len(s) /\ s[i] = "*" THEN i + 1 ELSE NumEnd(s, i)

\* [0-9A-Za-z-]+(\.[0-9A-Za-z-]+)*, e being where the first run of
\* identifier characters from i ends
RECURSIVE IdentsFrom(_, _, _)
IdentsFrom(s, i, e) ==
  IF e = i THEN 0
  ELSE IF e + 1 <= Len(s) /\ s[e] = "." /\ s[e + 1] \in IdentChars
       THEN IdentsFrom(s, e + 1, RunEnd(s, e + 1, IdentChars))
       ELSE e

IdentsEnd(s, i) == IdentsFrom(s, i, RunEnd(s, i, IdentChars))

NoMatch == [nomatch |-> TRUE]

\* An optional group that starts after the mark at e and would end at n
\* (0: it does not match): where the match goes on, and the group's text.
OptGroup(s, e, n) ==
  IF n = 0 THEN [e |-> e, g |-> None]
  ELSE [e |-> n, g |-> SubSeq(s, e + 1, n - 1)]

\* (\.NUMBER)? at e
OptNum(s, e, wild) ==
  OptGroup(s, e, IF e <= Len(s) /\ s[e] = "."
                 THEN (IF wild THEN WildNumEnd(s, e + 1) ELSE NumEnd(s, e + 1))
                 ELSE 0)

\* (\-IDENTS)? or (\+IDENTS)? at e, mark being - or +
OptIdents(s, e, mark) ==
  OptGroup(s, e, IF e <= Len(s) /\ s[e] = mark THEN IdentsEnd(s, e + 1) ELSE 0)

\* The tail shared by SEMVER and SV_RANGE once the major number is matched:
\* (\.minor)?(\.patch)?(\-prerelease)?(\+build)?$, one group after the other.
\* A group is skipped only where it cannot match: skipping the minor group
\* where it can would hand the same text to the patch group and end alike.
MatchEnd(s, op, major, minor, patch, pre, bld) ==
  IF bld.e = Len(s) + 1
  THEN [op |-> op, major |-> major, minor |-> minor.g, patch |-> patch.g,
        prerelease |-> pre.g, build |-> bld.g]
  ELSE NoMatch

MatchBuild(s, op, major, minor, patch, pre) ==
  MatchEnd(s, op, major, minor, patch, pre, OptIdents(s, pre.e, "+"))

MatchPrerelease(s, op, major, minor, patch) ==
  MatchBuild(s, op, major, minor, patch, OptIdents(s, patch.e, "-"))

MatchPatch(s, op, major, minor, wild) ==
  MatchPrerelease(s, op, major, minor, OptNum(s, minor.e, wild))

MatchTail(s, op, eMaj0, eMaj, wild) ==
  MatchPatch(s, op, SubSeq(s, eMaj0, eMaj - 1), OptNum(s, eMaj, wild), wild)

\* SEMVER.match(s), e being where the major number ends
MatchMajor(s, e) ==
  IF e = 0 THEN NoMatch ELSE MatchTail(s, None, 1, e, FALSE)

\* SEMVER.match(s), or NoMatch
SEMVER(s) == MatchMajor(s, NumEnd(s, 1))

(***************************************************************************)
(* class PreRelease: the container is the list of dot-separated            *)
(* identifiers.                                                            *)
(***************************************************************************)
PreRelease(pr) == IF pr = None THEN <<>> ELSE split(pr)

PreRelease_str(c) == join(c)

PreRelease_eq(l, r) == l = r

\* the for loop of PreRelease.__lt__ over zip(self, rhs), from pair i on
RECURSIVE PreRelease_lt_loop(_, _, _)
PreRelease_lt_loop(self, rhs, i) ==
  IF i > Len(self) \/ i > Len(rhs) THEN "RuntimeError"
  ELSE IF isdigit(self[i])
       THEN IF isdigit(rhs[i])
            THEN IF int(self[i]) < int(rhs[i]) THEN "True"
                 ELSE IF int(self[i]) > int(rhs[i]) THEN "False"
                 ELSE PreRelease_lt_loop(self, rhs, i + 1)
            ELSE "True"
       ELSE IF isdigit(rhs[i]) THEN "False"
       ELSE IF StrLt(self[i], rhs[i]) THEN "True"
       ELSE IF StrLt(rhs[i], self[i]) THEN "False"
       ELSE PreRelease_lt_loop(self, rhs, i + 1)

PreRelease_lt(self, rhs) ==
  IF PreRelease_eq(self, rhs) THEN "False"
  ELSE IF Len(self) = 0 THEN "False"
  \* len(rhs) is None never holds: the else branch falls through
  ELSE IF Len(self) > Len(rhs) THEN "False"
  ELSE IF Len(self) < Len(rhs) THEN "True"
  ELSE PreRelease_lt_loop(self, rhs, 1)

(***************************************************************************)
(* class Semver.  A Semver is the groupdict of the match (raw strings)     *)
(* with the PreRelease container added; ValueError when SEMVER does not    *)
(* match.                                                                  *)
(***************************************************************************)
ValueError == [raised |-> "ValueError"]

\* self.update(match.groupdict()); self.prerelease = PreRelease(...)
Semver_update(match) ==
  IF match = NoMatch THEN ValueError
  ELSE [major |-> match.major, minor |-> match.minor, patch |-> match.patch,
        prerelease |-> match.prerelease, build |-> match.build,
        container |-> PreRelease(match.prerelease)]

Semver(sv) == Semver_update(SEMVER(sv))

parts_raw(self) ==
  <<self.major, self.minor, self.patch, self.prerelease, self.build>>

ZeroFill(g) == IF g = None THEN <<"0">> ELSE g

\* Semver.__str__ without the build metadata
Semver_str_NoBuild(self) ==
  ZeroFill(self.major) \o <<".">> \o ZeroFill(self.minor) \o <<".">>
    \o ZeroFill(self.patch)
    \o (IF Len(self.container) > 0
        THEN <<"-">> \o PreRelease_str(self.container) ELSE <<>>)

Semver_str(self) ==
  ZeroFill(self.major) \o <<".">> \o ZeroFill(self.minor) \o <<".">>
    \o ZeroFill(self.patch)
    \o (IF Len(self.container) > 0
        THEN <<"-">> \o PreRelease_str(self.container) ELSE <<>>)
    \o (IF self.build # None THEN <<"+">> \o self.build ELSE <<>>)

parts(self) ==
  <<int(ZeroFill(self.major)), int(ZeroFill(self.minor)),
    int(ZeroFill(self.patch)), self.prerelease, self.build>>

\* Semver.__lt__ on l = self.parts() and r = rhs.parts()
Semver_lt_parts(self, rhs, l, r) ==
  IF l[1] < r[1] THEN "True"
  ELSE IF l[2] < r[2] THEN "True"
  ELSE IF l[3] < r[3] THEN "True"
  ELSE IF l[4] # None /\ r[4] = None THEN "True"
  ELSE IF l[4] # None /\ r[4] # None
       THEN PreRelease_lt(self.container, rhs.container)
  ELSE "False"

Semver_lt(self, rhs) == Semver_lt_parts(self, rhs, parts(self), parts(rhs))

\* Semver.__eq__ on l = self.parts() and r = rhs.parts()
Semver_eq_parts(l, r) ==
  IF l[1] = r[1] /\ l[2] = r[2] /\ l[3] = r[3] /\ l[4] = r[4] /\ l[5] = r[5]
  THEN "True" ELSE "False"

Semver_eq(self, rhs) == Semver_eq_parts(parts(self), parts(rhs))

\* not x, and x or y, on values that may be an exception
Not(x) == IF x = "True" THEN "False" ELSE IF x = "False" THEN "True" ELSE x

Or(x, y) == IF x = "False" THEN y ELSE x

And(x, y) == IF x = "True" THEN y ELSE x

Semver_gt(self, rhs) == Not(Or(Semver_lt(self, rhs), Semver_eq(self, rhs)))

Semver_ge(self, rhs) == Not(Semver_lt(self, rhs))

Semver_le(self, rhs) == Not(Semver_gt(self, rhs))

Semver_ne(self, rhs) == Not(Semver_eq(self, rhs))

(***************************************************************************)
(* class SemverRange.  A range is the groupdict of SV_RANGE with the op    *)
(* fixed up, the PreRelease container and, when an op was written, the     *)
(* Semver of the text after it.                                            *)
(***************************************************************************)
PyNone == [none |-> TRUE]

RuntimeError == [raised |-> "RuntimeError"]

\* (?P<op>(?:\<|\>|=|\<=|\>=|\^|\~))?: the length of the op at the head of s.
\* The alternatives are tried in order, but after "<" or ">" the major number
\* cannot start with "=", so "<=" and ">=" are what the match keeps.
OpLen(s) ==
  IF Len(s) >= 2 /\ s[1] \in {"<", ">"} /\ s[2] = "=" THEN 2
  ELSE IF Len(s) >= 1 /\ s[1] \in {"<", ">", "=", "^", "~"} THEN 1
  ELSE 0

\* SV_RANGE.match(s) with an op of n characters, e being where the major ends
RangeMajor(s, n, e) ==
  IF e = 0 THEN NoMatch
  ELSE MatchTail(s, IF n = 0 THEN None ELSE SubSeq(s, 1, n), n + 1, e, TRUE)

RangeOp(s, n) == RangeMajor(s, n, WildNumEnd(s, n + 1))

\* SV_RANGE.match(s), or NoMatch.  Without its op a string that starts with
\* an op character cannot match, so the op is taken whenever it is there.
SV_RANGE(s) == RangeOp(s, OpLen(s))

\* the op fixed up, and self._semver
SemverRange_fixup(sv, match, semver) ==
  IF match = NoMatch THEN ValueError
  ELSE IF match.op = None
  THEN [op |-> IF match.major = <<"*">> \/ match.minor = <<"*">>
                   \/ match.patch = <<"*">>
               THEN <<"*">> ELSE <<"^">>,
        major |-> match.major, minor |-> match.minor, patch |-> match.patch,
        prerelease |-> match.prerelease, build |-> match.build,
        container |-> PreRelease(match.prerelease), semver |-> PyNone]
  ELSE IF semver = ValueError THEN ValueError
  ELSE [op |-> match.op,
        major |-> match.major, minor |-> match.minor, patch |-> match.patch,
        prerelease |-> match.prerelease, build |-> match.build,
        container |-> PreRelease(match.prerelease), semver |-> semver]

SemverRange(sv) ==
  SemverRange_fixup(sv, SV_RANGE(sv), Semver(SubSeq(sv, OpLen(sv) + 1, Len(sv))))

ComparisonOps == {<<"<", "=">>, <<"<">>, <<"=">>, <<">">>, <<">", "=">>}

Dot == <<".">>

Zero == <<"0">>

\* a number left as it is
NoIncr(n) == n

\* str(int(n) + 1)
Incr(n) == str(int(n) + 1)

SemverRange_lower(self) ==
  IF self.op \in ComparisonOps THEN PyNone
  ELSE IF self.op = <<"*">>
  THEN IF self.major = <<"*">> THEN Semver(Zero \o Dot \o Zero \o Dot \o Zero)
       ELSE IF self.minor = <<"*">>
       THEN Semver(self.major \o Dot \o Zero \o Dot \o Zero)
       ELSE IF self.patch = <<"*">>
       THEN Semver(self.major \o Dot \o self.minor \o Dot \o Zero)
       ELSE RuntimeError
  ELSE IF self.op = <<"^">>
  THEN IF self.patch = None
       THEN IF self.minor = None
            THEN Semver(self.major \o Dot \o Zero \o Dot \o Zero)
            ELSE Semver(self.major \o Dot \o self.minor \o Dot \o Zero)
       ELSE IF int(self.major) = 0
            THEN IF int(self.minor) = 0
                 THEN Semver(Zero \o Dot \o Zero \o Dot \o self.patch)
                 ELSE Semver(Zero \o Dot \o self.minor \o Dot \o self.patch)
            ELSE Semver(self.major \o Dot \o self.minor \o Dot \o self.patch)
  ELSE IF self.op = <<"~">>
  THEN IF self.patch = None
       THEN IF self.minor = None
            THEN Semver(self.major \o Dot \o Zero \o Dot \o Zero)
            ELSE Semver(self.major \o Dot \o self.minor \o Dot \o Zero)
       ELSE Semver(self.major \o Dot \o self.minor \o Dot \o self.patch)
  ELSE RuntimeError

SemverRange_upper(self) ==
  IF self.op \in ComparisonOps THEN PyNone
  ELSE IF self.op = <<"*">>
  THEN IF self.major = <<"*">> THEN PyNone
       ELSE IF self.minor = <<"*">>
       THEN Semver(Incr(self.major) \o Dot \o Zero \o Dot \o Zero)
       ELSE IF self.patch = <<"*">>
       THEN Semver(self.major \o Dot \o Incr(self.minor) \o Dot \o Zero)
       ELSE RuntimeError
  ELSE IF self.op = <<"^">>
  THEN IF self.patch = None
       THEN IF self.minor = None
            THEN Semver(Incr(self.major) \o Dot \o Zero \o Dot \o Zero)
            ELSE Semver(self.major \o Dot \o Incr(self.minor) \o Dot \o Zero)
       ELSE IF int(self.major) = 0
            THEN IF int(self.minor) = 0
                 THEN Semver(Zero \o Dot \o Zero \o Dot \o Incr(self.patch))
                 ELSE Semver(Zero \o Dot \o Incr(self.minor) \o Dot \o Zero)
            ELSE Semver(Incr(self.major) \o Dot \o Zero \o Dot \o Zero)
  ELSE IF self.op = <<"~">>
  THEN IF self.patch = None
       THEN IF self.minor = None
            THEN Semver(Incr(self.major) \o Dot \o Zero \o Dot \o Zero)
            ELSE Semver(self.major \o Dot \o Incr(self.minor) \o Dot \o Zero)
       ELSE Semver(self.major \o Dot \o Incr(self.minor) \o Dot \o Zero)
  ELSE RuntimeError

\* (sv >= self.lower()) and (sv < self.upper())
\* (sv >= self.lower()) and (sv <= self.upper())
upper_included(sv, lo, hi) == And(Semver_ge(sv, lo), Semver_le(sv, hi))

Between(sv, lo, hi) == And(Semver_ge(sv, lo), Semver_lt(sv, hi))

SemverRange_compare(self, sv) ==
  IF self.op = <<"*">>
  THEN IF self.major = <<"*">>
       THEN Semver_ge(sv, Semver(Zero \o Dot \o Zero \o Dot \o Zero))
       ELSE Between(sv, SemverRange_lower(self), SemverRange_upper(self))
  ELSE IF self.op \in {<<"^">>, <<"~">>}
  THEN Between(sv, SemverRange_lower(self), SemverRange_upper(self))
  ELSE IF self.op = <<"<", "=">> THEN Semver_le(sv, self.semver)
  ELSE IF self.op = <<">", "=">> THEN Semver_ge(sv, self.semver)
  ELSE IF self.op = <<"<">> THEN Semver_lt(sv, self.semver)
  ELSE IF self.op = <<">">> THEN Semver_gt(sv, self.semver)
  ELSE IF self.op = <<"=">> THEN Semver_eq(sv, self.semver)
  ELSE "RuntimeError"

(***************************************************************************)
(* sorted(passed.iterkeys()): CPython's list sort on fewer than 64         *)
(* elements.  count_run finds the run the list starts with, a strictly     *)
(* descending run is reversed, and binarysort inserts every later element  *)
(* by binary search.  Only '<' is asked, as x.__lt__(y); an exception      *)
(* from it ends the sort.  A sort result is [ok, list].                    *)
(***************************************************************************)
SortFailed == [ok |-> FALSE, list |-> <<>>]

\* count_run after the first comparison: i is the next element to look at
RECURSIVE count_run_from(_, _, _)
count_run_from(xs, i, descending) ==
  IF i > Len(xs) THEN i - 1
  ELSE IF Semver_lt(xs[i], xs[i - 1]) = "RuntimeError" THEN 0
  ELSE IF (Semver_lt(xs[i], xs[i - 1]) = "True") = descending
       THEN count_run_from(xs, i + 1, descending)
       ELSE i - 1

\* count_run: the length of the run at the head of xs (0: '<' raised), Len(xs) >= 2
count_run(xs) ==
  IF Semver_lt(xs[2], xs[1]) = "RuntimeError" THEN 0
  ELSE count_run_from(xs, 3, Semver_lt(xs[2], xs[1]) = "True")

reverse_slice(xs, n) ==
  [i \in 1..Len(xs) |-> IF i <= n THEN xs[n + 1 - i] ELSE xs[i]]

\* the do-while of binarysort: where pivot belongs in xs[l..r-1] (0: '<' raised)
RECURSIVE bisect(_, _, _, _)
bisect(xs, pivot, l, r) ==
  IF Semver_lt(pivot, xs[l + ((r - l) \div 2)]) = "RuntimeError" THEN 0
  ELSE IF Semver_lt(pivot, xs[l + ((r - l) \div 2)]) = "True"
       THEN (IF l < l + ((r - l) \div 2)
             THEN bisect(xs, pivot, l, l + ((r - l) \div 2))
             ELSE l)
       ELSE (IF l + ((r - l) \div 2) + 1 < r
             THEN bisect(xs, pivot, l + ((r - l) \div 2) + 1, r)
             ELSE l + ((r - l) \div 2) + 1)

\* xs with xs[start] moved to position l
insert_at(xs, start, l) ==
  [i \in 1..Len(xs) |-> IF i < l THEN xs[i]
                        ELSE IF i = l THEN xs[start]
                        ELSE IF i <= start THEN xs[i - 1]
                        ELSE xs[i]]

\* binarysort(lo, hi, start): xs[1..start-1] is sorted already
RECURSIVE binarysort(_, _)
binarysort(xs, start) ==
  IF start > Len(xs) THEN [ok |-> TRUE, list |-> xs]
  ELSE IF bisect(xs, xs[start], 1, start) = 0 THEN SortFailed
  ELSE binarysort(insert_at(xs, start, bisect(xs, xs[start], 1, start)), start + 1)

\* listsort once count_run has returned n
listsort_run(xs, n) ==
  IF n = 0 THEN SortFailed
  ELSE IF Semver_lt(xs[2], xs[1]) = "True"
  THEN binarysort(reverse_slice(xs, n), n + 1)
  ELSE binarysort(xs, n + 1)

sorted(xs) ==
  IF Len(xs) < 2 THEN [ok |-> TRUE, list |-> xs]
  ELSE listsort_run(xs, count_run(xs))

(***************************************************************************)
(* crate_info_from_index.  An index is a function from package names to    *)
(* the records of the package's file, in file order; a record is           *)
(* [name, vers, deps, features, cksum], vers being None for a record       *)
(* without the key.  The dict passed is the sequence of its entries        *)
(* [key, info] in insertion order; the order in which iterkeys() yields    *)
(* them is an argument, since the language leaves it open.                 *)
(***************************************************************************)
\* args.target, the target triple of the run
TARGET == "x86_64-unknown-linux-gnu"

IOError == [raised |-> "IOError"]

IndexError == [raised |-> "IndexError"]

Raised(x) == "raised" \in DOMAIN x

\* passed[sv] = info: an equal key keeps its place and takes the new value
dict_set(passed, sv, info) ==
  IF \E i \in 1..Len(passed) : Semver_eq(passed[i].key, sv) = "True"
  THEN [i \in 1..Len(passed) |->
          IF Semver_eq(passed[i].key, sv) = "True"
          THEN [key |-> passed[i].key, info |-> info] ELSE passed[i]]
  ELSE Append(passed, [key |-> sv, info |-> info])

\* the loop over dep_infos from record i on; a record of passed entries, or
\* the exception that ended the loop
RECURSIVE passed_loop(_, _, _, _)
passed_loop(infos, i, svr, passed) ==
  IF i > Len(infos) THEN [entries |-> passed]
  ELSE IF infos[i].vers = None THEN passed_loop(infos, i + 1, svr, passed)
  ELSE IF Semver(infos[i].vers) = ValueError THEN ValueError
  ELSE IF SemverRange_compare(svr, Semver(infos[i].vers)) = "RuntimeError"
       THEN RuntimeError
  ELSE IF SemverRange_compare(svr, Semver(infos[i].vers)) = "True"
       THEN passed_loop(infos, i + 1, svr,
                        dict_set(passed, Semver(infos[i].vers), infos[i]))
  ELSE passed_loop(infos, i + 1, svr, passed)

\* keys.pop() and passed[best_match], keys being the sort's result
best_info(passed, keys) ==
  IF ~keys.ok THEN RuntimeError
  ELSE IF Len(keys.list) = 0 THEN IndexError
  ELSE (CHOOSE e \in {passed[i] : i \in 1..Len(passed)} :
          Semver_eq(e.key, keys.list[Len(keys.list)]) = "True").info

\* only include deps without a 'target' or ones with matching 'target'
target_filter(deps) ==
  SelectSeq(deps, LAMBDA x : x.target = "absent" \/ x.target = TARGET)

\* the tuple crate_info_from_index returns
index_result(best) ==
  IF Raised(best) THEN best
  ELSE [name |-> best.name, ver |-> best.vers,
        deps |-> target_filter(best.deps),
        ftrs |-> best.features, cksum |-> best.cksum]

\* from the dict passed on, order being the order iterkeys() yields it in
index_select(passed, order) ==
  IF Raised(passed) THEN passed
  ELSE index_result(
         best_info(passed.entries,
                   sorted([i \in 1..Len(passed.entries) |->
                             passed.entries[order[i]].key])))

\* the dict passed of a lookup, or the exception raised before it is complete
index_passed(index, name, svr) ==
  IF name \notin DOMAIN index THEN IOError
  ELSE passed_loop(index[name], 1, svr, <<>>)

\* the orders in which a dict of n entries may be iterated
IterOrders(passed) ==
  IF Raised(passed) THEN {<<>>}
  ELSE {o \in [1..Len(passed.entries) -> 1..Len(passed.entries)] :
          \A i, j \in 1..Len(passed.entries) : i # j => o[i] # o[j]}

crate_info_from_index(index, name, svr, order) ==
  index_select(index_passed(index, name, svr), order)

(***************************************************************************)
(* The version strings the tests draw from: a numeric part with minor      *)
(* and patch possibly omitted, an optional prerelease and optional build   *)
(* metadata.                                                               *)
(***************************************************************************)
MaxNum == 1

Nums == {str(n) : n \in 0..MaxNum}

NumericForms ==
  Nums \cup {a \o <<".">> \o b : a \in Nums, b \in Nums}
       \cup {a \o <<".">> \o b \o <<".">> \o c : a \in Nums, b \in Nums, c \in Nums}

PreSamples ==
  {None, <<"a", "l", "p", "h", "a">>, <<"a", "l", "p", "h", "a", ".", "1">>,
   <<"b", "e", "t", "a">>, <<"1">>, <<"0", "1">>}

BuildSamples == {None, <<"x">>, <<"y">>}

Compose(n, p, b) ==
  n \o (IF p = None THEN <<>> ELSE <<"-">> \o p)
    \o (IF b = None THEN <<>> ELSE <<"+">> \o b)

VersionStrings ==
  {Compose(n, p, b) : n \in NumericForms, p \in PreSamples, b \in BuildSamples}

\* strings SEMVER rejects
BadStrings ==
  {<<"0", "1">>, <<"1", ".">>, <<"1", ".", "0", ".", "0", ".", "0">>,
   <<"1", "-">>, <<"1", "+">>, <<"*">>, <<"1", ".", "0", "-", "a", ".">>, <<>>}

Idle == [done |-> FALSE]

(***************************************************************************)
(* test_semver, "testing less than" and "testing equality": two versions   *)
(* are parsed and compared with every comparison operator.                 *)
(***************************************************************************)
CompareInit ==
  /\ sv1 \in VersionStrings
  /\ sv2 \in VersionStrings
  /\ cmp = Idle
  /\ rt = Idle
  /\ req = None
  /\ rng = Idle
  /\ idir = None
  /\ found = Idle
  /\ NoRun

Comparisons(a, b) ==
  [done |-> TRUE,
   lt |-> Semver_lt(a, b), gt |-> Semver_gt(a, b),
   le |-> Semver_le(a, b), ge |-> Semver_ge(a, b),
   eq |-> Semver_eq(a, b), ne |-> Semver_ne(a, b),
   rlt |-> Semver_lt(b, a)]

Compare ==
  /\ ~cmp.done
  /\ cmp' = Comparisons(Semver(sv1), Semver(sv2))
  /\ UNCHANGED <<sv1, sv2, rt, req, rng, idir, found, runVars>>

CompareNext == Compare

SpecCompare == CompareInit /\ [][CompareNext]_vars

(***************************************************************************)
(* test_semver, "testing parsing": a version is parsed and printed; the    *)
(* printed form is parsed again.                                           *)
(***************************************************************************)
PrintInit ==
  /\ sv1 \in VersionStrings \cup BadStrings
  /\ sv2 = None
  /\ cmp = Idle
  /\ rt = [done |-> FALSE, stage |-> "input"]
  /\ req = None
  /\ rng = Idle
  /\ idir = None
  /\ found = Idle
  /\ NoRun

ParseVersion ==
  /\ rt.stage = "input"
  /\ rt' = [done |-> FALSE, stage |-> "parsed", parsed |-> Semver(sv1)]
  /\ UNCHANGED <<sv1, sv2, cmp, req, rng, idir, found, runVars>>

PrintVersion ==
  /\ rt.stage = "parsed"
  /\ rt.parsed # ValueError
  /\ rt' = [done |-> FALSE, stage |-> "printed", parsed |-> rt.parsed,
            text |-> Semver_str(rt.parsed)]
  /\ UNCHANGED <<sv1, sv2, cmp, req, rng, idir, found, runVars>>

ReparseVersion ==
  /\ rt.stage = "printed"
  /\ rt' = [done |-> TRUE, stage |-> "reparsed", parsed |-> rt.parsed,
            text |-> rt.text, reparsed |-> Semver(rt.text)]
  /\ UNCHANGED <<sv1, sv2, cmp, req, rng, idir, found, runVars>>

PrintNext == ParseVersion \/ PrintVersion \/ ReparseVersion

SpecPrint == PrintInit /\ [][PrintNext]_vars

(***************************************************************************)
(* test_semver, "testing semver range parsing": a range is constructed and *)
(* its bounds are taken; crate_info_from_index then calls compare on it    *)
(* with the version of an index record.                                    *)
(***************************************************************************)
OpSamples ==
  {None, <<"^">>, <<"~">>, <<"<">>, <<"<", "=">>, <<">">>, <<">", "=">>, <<"=">>}

WildForms ==
  {<<"*">>, <<"*", ".", "*">>}
    \cup {a \o <<".", "*">> : a \in Nums}
    \cup {a \o Dot \o b \o <<".", "*">> : a \in Nums, b \in Nums}

RangeStrings ==
  {o \o n : o \in OpSamples, n \in NumericForms \cup WildForms}
    \cup {o \o <<"1", ".", "0", ".", "0", "-", "a">> : o \in OpSamples}

\* strings SV_RANGE rejects
BadRanges ==
  {<<"<", "<", "1">>, <<"=", "=", "1">>, <<"^">>, <<"1", ".", ".", "0">>, <<>>}

VersionNums == {str(n) : n \in 0..(MaxNum + 1)}

RangeVersions ==
  {Compose(a \o Dot \o b \o Dot \o c, p, None) :
     a \in VersionNums, b \in VersionNums, c \in VersionNums,
     p \in {None, <<"a">>}}

RangeInit ==
  /\ req \in RangeStrings \cup BadRanges
  /\ sv1 = None
  /\ sv2 = None
  /\ cmp = Idle
  /\ rt = Idle
  /\ rng = [done |-> FALSE, stage |-> "input"]
  /\ idir = None
  /\ found = Idle
  /\ NoRun

ConstructRange ==
  /\ rng.stage = "input"
  /\ rng' = [done |-> FALSE, stage |-> "constructed", range |-> SemverRange(req)]
  /\ UNCHANGED <<sv1, sv2, cmp, rt, req, idir, found, runVars>>

RangeBounds ==
  /\ rng.stage = "constructed"
  /\ rng.range # ValueError
  /\ rng' = [done |-> FALSE, stage |-> "bounds", range |-> rng.range,
             lower |-> SemverRange_lower(rng.range),
             upper |-> SemverRange_upper(rng.range)]
  /\ UNCHANGED <<sv1, sv2, cmp, rt, req, idir, found, runVars>>

RangeCompare ==
  /\ rng.stage = "bounds"
  /\ \E sv \in RangeVersions :
       /\ sv1' = sv
       /\ rng' = [done |-> TRUE, stage |-> "compared", range |-> rng.range,
                  lower |-> rng.lower, upper |-> rng.upper,
                  compare |-> SemverRange_compare(rng.range, Semver(sv))]
  /\ UNCHANGED <<sv2, cmp, rt, req, idir, found, runVars>>

RangeNext == ConstructRange \/ RangeBounds \/ RangeCompare

SpecRange == RangeInit /\ [][RangeNext]_vars

(***************************************************************************)
(* An index lookup on its own: the file of one package holds up to         *)
(* MaxRecords records, each with a version of its own, and one range is    *)
(* looked up in it.                                                        *)
(***************************************************************************)
MaxRecords == 3

v100 == <<"1", ".", "0", ".", "0">>

v101 == <<"1", ".", "0", ".", "1">>

v110 == <<"1", ".", "1", ".", "0">>

v111 == <<"1", ".", "1", ".", "1">>

v120 == <<"1", ".", "2", ".", "0">>

v200 == <<"2", ".", "0", ".", "0">>

\* None: a record without the key 'vers'
IndexVersions == {v100, v101, v110, v111, v120, v200, v100 \o <<"-", "a">>, None}

IndexRanges == {<<"^", "1">>, v111, <<"*">>}

\* a record of the index file of package name
Record(name, vers, deps) ==
  [name |-> name, vers |-> vers, deps |-> deps, features |-> <<>>,
   cksum |-> vers]

\* the files of up to n records with versions of vs, no version twice
RECURSIVE RecordLists(_, _, _)
RecordLists(name, vs, n) ==
  IF n = 0 THEN {<<>>}
  ELSE {<<>>} \cup
       {<<Record(name, v, <<>>)>> \o rest :
          v \in vs, rest \in RecordLists(name, vs, n - 1)}

\* what the entry of a dependency has under 'target': no such key, null, the
\* target of the run or another one
Targets == {"absent", "null", TARGET, "i686-pc-windows-gnu"}

\* an entry of the list 'deps' of a record
TargetedDep(name, t) ==
  [name |-> name, req |-> <<"1">>, kind |-> "normal", optional |-> FALSE,
   features |-> <<>>, default_features |-> TRUE, target |-> t]

\* the lists 'deps' the records of a file come with
TargetedDeps ==
  {<<>>} \cup {<<TargetedDep(<<"b">>, t)>> : t \in Targets}
    \cup {<<TargetedDep(<<"b">>, t), TargetedDep(<<"c">>, u)>> :
            t \in Targets, u \in Targets}

\* the records recs, each with the list deps
WithDeps(recs, deps) ==
  [i \in 1..Len(recs) |-> [recs[i] EXCEPT !.deps = deps]]

NoRepeat(recs) ==
  \A i, j \in 1..Len(recs) : i # j => recs[i].vers # recs[j].vers

LookupInit ==
  /\ idir \in {[n \in {<<"d">>} |-> WithDeps(recs, deps)] :
               recs \in {l \in RecordLists(<<"d">>, IndexVersions, MaxRecords) :
                           Len(l) > 0 /\ NoRepeat(l)},
               deps \in TargetedDeps}
  /\ req \in IndexRanges
  /\ found = Idle
  /\ NoRun
  /\ sv1 = None
  /\ sv2 = None
  /\ cmp = Idle
  /\ rt = Idle
  /\ rng = Idle

Lookup ==
  /\ ~found.done
  /\ \E order \in IterOrders(index_passed(idir, <<"d">>, SemverRange(req))) :
       found' = [done |-> TRUE,
                info |-> crate_info_from_index(idir, <<"d">>,
                                               SemverRange(req), order)]
  /\ UNCHANGED <<sv1, sv2, cmp, rt, req, rng, idir, runVars>>

LookupNext == Lookup

SpecLookup == LookupInit /\ [][LookupNext]_vars

(***************************************************************************)
(* Python dicts whose order of iteration matters are sequences of          *)
(* [key, val] entries without a key twice; an equal key keeps its place.   *)
(* The order in which a dict is iterated is open, and is an argument of    *)
(* whatever iterates.                                                      *)
(***************************************************************************)
has_key(d, k) == \E i \in 1..Len(d) : d[i].key = k

dict_get(d, k) == d[CHOOSE i \in 1..Len(d) : d[i].key = k].val

dict_put(d, k, v) ==
  IF has_key(d, k)
  THEN [i \in 1..Len(d) |-> IF d[i].key = k THEN [key |-> k, val |-> v] ELSE d[i]]
  ELSE Append(d, [key |-> k, val |-> v])

\* dict(d, **e)
RECURSIVE dict_update(_, _)
dict_update(d, e) ==
  IF e = <<>> THEN d
  ELSE dict_update(dict_put(d, Head(e).key, Head(e).val), Tail(e))

\* the orders in which n things may come
Orders(n) ==
  {o \in [1..n -> 1..n] : \A i, j \in 1..n : i # j => o[i] # o[j]}

\* xs as the order o yields it
Permute(xs, o) == [i \in 1..Len(xs) |-> xs[o[i]]]

\* s.replace(a, b) for single characters a and b
replace(s, a, b) == [i \in 1..Len(s) |-> IF s[i] = a THEN b ELSE s[i]]

LowerCase == <<"a", "b", "c", "d", "e", "f", "g", "h", "i", "j", "k", "l",
      "m", "n", "o", "p", "q", "r", "s", "t", "u", "v", "w", "x", "y", "z">>

UpperCase == <<"A", "B", "C", "D", "E", "F", "G", "H", "I", "J", "K", "L",
      "M", "N", "O", "P", "Q", "R", "S", "T", "U", "V", "W", "X", "Y", "Z">>

\* s.upper()
upper(s) ==
  [i \in 1..Len(s) |->
     IF \E n \in 1..Len(LowerCase) : LowerCase[n] = s[i]
     THEN UpperCase[CHOOSE n \in 1..Len(LowerCase) : LowerCase[n] = s[i]]
     ELSE s[i]]

(***************************************************************************)
(* crate_info_from_toml.  A manifest is the record toml.load gives:        *)
(* package (name, version, links, build), the lib and bin tables, and the  *)
(* merged dependency tables as entries [k, plain, req, path, optional]:    *)
(* plain for                                                               *)
(* k = "req", path for a table with the key 'path'.  sources are the files *)
(* of the package directory.  A manifest that does not load has            *)
(* ok = FALSE.                                                             *)
(***************************************************************************)
\* what the except branch leaves: (None, None, [], 'lib.rs'); the string is
\* the sequence of its characters, none of which is a build target
toml_failed ==
  [name |-> None, ver |-> None, deps |-> <<>>,
   build |-> [i \in 1..6 |-> [str |-> <<"l", "i", "b", ".", "r", "s">>[i]]]]

toml_script(p) ==
  IF p.build = None THEN <<>>
  ELSE <<[type |-> "build_script", path |-> p.build,
          name |-> replace(p.name, "-", "_"), links |-> p.links]>>

toml_libs(cfg) ==
  [i \in 1..Len(cfg.lib) |->
     [type |-> "lib",
      path |-> IF cfg.lib[i].path = None THEN <<"l", "i", "b", ".", "r",
            "s">> ELSE cfg.lib[i].path,
      name |-> cfg.lib[i].name, links |-> cfg.package.links]]

toml_bins(cfg) ==
  [i \in 1..Len(cfg.bin) |->
     [type |-> "bin",
      path |-> IF cfg.bin[i].path = None
               THEN <<"b", "i", "n", "/">> \o cfg.bin[i].name \o <<".",
                     "r", "s">>
               ELSE cfg.bin[i].path,
      name |-> cfg.bin[i].name, links |-> cfg.package.links]]

\* if no explicit directions on what to build, then add a default
toml_default(cfg) ==
  IF Len(cfg.lib) + Len(cfg.bin) > 0 THEN <<>>
  ELSE <<[type |-> "lib", path |-> <<"l", "i", "b", ".", "r", "s">>,
          name |-> replace(cfg.package.name, "-", "_"), links |-> <<>>]>>

toml_build(cfg) ==
  toml_script(cfg.package) \o toml_libs(cfg) \o toml_bins(cfg) \o toml_default(cfg)

\* every target's file is in the package directory or below its src/
toml_found(build, sources) ==
  \A i \in 1..Len(build) :
    build[i].path \in sources \/ (<<"s", "r", "c",
          "/">> \o build[i].path) \in sources

toml_paths(build, sources) ==
  [i \in 1..Len(build) |->
     IF build[i].path \in sources THEN build[i]
     ELSE [build[i] EXCEPT !.path = <<"s", "r", "c", "/">> \o @]]

\* a declaration with what d.get() answers for the keys it does not have
toml_dep(k, v) ==
  [name |-> k, req |-> v, kind |-> "normal", optional |-> FALSE,
   features |-> <<>>, default_features |-> TRUE, target |-> "absent"]

\* the loop over d.iteritems(), d in the order it is iterated
RECURSIVE toml_deps(_)
toml_deps(d) ==
  IF d = <<>> THEN <<>>
  ELSE (IF Head(d).plain \/ Head(d).path
        THEN <<toml_dep(Head(d).k, Head(d).req)>> ELSE <<>>)
       \o toml_deps(Tail(d))

crate_info_from_toml(cfg, order) ==
  IF ~cfg.ok THEN toml_failed
  ELSE IF cfg.package.name = None \/ cfg.package.version = None THEN toml_failed
  ELSE IF Len(cfg.package.links) > 0 /\ cfg.package.build = None THEN toml_failed
  ELSE IF ~toml_found(toml_build(cfg), cfg.sources) THEN toml_failed
  ELSE [name |-> cfg.package.name,
        ver |-> cfg.package.version,
        deps |-> toml_deps(Permute(cfg.dependencies, order)),
        build |-> toml_paths(toml_build(cfg), cfg.sources)]

(***************************************************************************)
(* Crate.  Objects live in heap and are known by their place in it; 0 is   *)
(* no object.  _deps and _env are dicts, _refs is a list.                  *)
(***************************************************************************)
AttributeError == [raised |-> "AttributeError"]

\* Crate.__init__: build scripts first, then the lib/bin builds.  Semver(ver)
\* may raise, and so does the filter when build is the string 'lib.rs'.
Crate(crate, ver, deps, cdir, build) ==
  IF Semver(ver) = ValueError THEN ValueError
  ELSE IF \E i \in 1..Len(build) : "str" \in DOMAIN build[i] THEN AttributeError
  ELSE
  [crate |-> crate, version |-> Semver(ver), dep_info |-> deps, dir |-> cdir,
   build |-> SelectSeq(build, LAMBDA x : x.type = "build_script")
             \o SelectSeq(build, LAMBDA x : x.type # "build_script"),
   resolved |-> FALSE, deps |-> <<>>, refs |-> <<>>, env |-> <<>>,
   dep_env |-> <<>>]

\* Crate.__str__
Crate_str(self) == self.crate \o <<"-">> \o Semver_str(self.version)

\* Crate.add_ref on the object at place to, the referrer's string being by
add_ref(hp, to, by) ==
  IF \E i \in 1..Len(hp[to].refs) : hp[to].refs[i] = by THEN hp
  ELSE [hp EXCEPT ![to].refs = Append(@, by)]

\* Crate.add_dep on the object at place self, of the object at place to
add_dep(hp, self, to, features) ==
  IF has_key(hp[self].deps, Crate_str(hp[to])) THEN hp
  ELSE add_ref([hp EXCEPT ![self].deps =
                  Append(@, [key |-> Crate_str(hp[to]), val |-> features])],
               to, Crate_str(hp[self]))

\* tftrs: the features the declaration asks for, 'default' unless disabled
tftrs(d) ==
  SelectSeq(d.features, LAMBDA x : Len(x) > 0)
    \o (IF d.default_features THEN <<<<"d", "e", "f", "a", "u", "l",
          "t">>>> ELSE <<>>)

\* for k in tftrs: if ftrs.has_key(k): features += ftrs[k]
RECURSIVE activated(_, _)
activated(ftrs, ks) ==
  IF ks = <<>> THEN <<>>
  ELSE (IF has_key(ftrs, Head(ks)) THEN dict_get(ftrs, Head(ks)) ELSE <<>>)
       \o activated(ftrs, Tail(ks))

\* dl_and_check_crate: cname
cname(name, ver) == name \o <<"-">> \o ver

(***************************************************************************)
(* Crate.build: the names it derives, the environment and the runners it   *)
(* queues.  An environment is a dict; the name of a variable is the        *)
(* format string's literal followed by the characters formatted into it.   *)
(***************************************************************************)
\* '-' + str(self.version()).replace('.','_')
extra_filename(self) == <<"-">> \o replace(Semver_str(self.version), ".", "_")

\* args.target_dir
out_dir == <<"o", "u", "t">>

\* os.path.join(out_dir, 'lib%s%s.rlib' % (output_name, extra_filename))
output(self) ==
  out_dir \o <<"/", "l", "i", "b">> \o replace(self.crate, "-",
        "_") \o extra_filename(self) \o <<".", "r", "l", "i", "b">>

\* ({'name':self.name(), 'lib':output}, self._env)
build_result(self) ==
  [extern |-> [name |-> self.crate, lib |-> output(self)], env |-> self.env]

\* for f in features: env['CARGO_FEATURE_%s' % f.upper().replace('-','_')] = '1'
RECURSIVE env_features(_, _)
env_features(env, features) ==
  IF features = <<>> THEN env
  ELSE env_features(
         dict_put(env, <<"CARGO_FEATURE_">> \o replace(upper(Head(features)), "-", "_"),
                  <<"1">>),
         Tail(features))

\* str(v) of an exported value that is not a string
env_value(v) == IF v = None THEN <<"N", "o", "n", "e">> ELSE v

\* for k,v in e.iteritems(): env['DEP_%s_%s' % (l.upper(), v.upper())] = v
RECURSIVE env_dep(_, _, _)
env_dep(env, l, e) ==
  IF e = <<>> THEN env
  ELSE env_dep(
         dict_put(env, <<"DEP_">> \o upper(l) \o <<"_">> \o upper(env_value(Head(e).val)),
                  env_value(Head(e).val)),
         l, Tail(e))

\* for l,e in self._dep_env.iteritems()
RECURSIVE env_deps(_, _)
env_deps(env, dep_env) ==
  IF dep_env = <<>> THEN env
  ELSE env_deps(env_dep(env, Head(dep_env).key, Head(dep_env).val), Tail(dep_env))

\* the environment for subcommands, on top of os.environ (taken to be empty)
build_env(self, features) ==
  env_deps(
    env_features(<<[key |-> <<"OUT_DIR">>, val |-> out_dir],
                   [key |-> <<"TARGET">>, val |-> <<TARGET>>],
                   [key |-> <<"HOST">>, val |-> <<TARGET>>],
                   [key |-> <<"NUM_JOBS">>, val |-> <<"1">>],
                   [key |-> <<"CARGO_MANIFEST_DIR">>, val |-> self.dir],
                   [key |-> <<"OPT_LEVEL">>, val |-> <<"0">>],
                   [key |-> <<"DEBUG">>, val |-> <<"0">>],
                   [key |-> <<"PROFILE">>, val |-> <<"r", "e", "l", "e",
                         "a", "s", "e">>]>>,
                 features),
    self.dep_env)

\* a command line without the --cfg feature="..." flags
without_cfg(self, b, features, externs) ==
  [path |-> self.dir \o <<"/">> \o b.path,
   crate_name |-> IF b.type = "build_script" THEN <<"b", "u", "i", "l",
         "d", "_", "s", "c", "r", "i", "p", "t", "_">> \o b.name
                  ELSE b.name,
   crate_type |-> IF b.type = "lib" THEN "lib" ELSE "bin",
   cfg |-> <<>>,
   extra_filename |-> extra_filename(self),
   externs |-> externs,
   links |-> IF b.type # "build_script" THEN b.links ELSE <<>>]

\* the rustc command line for build target b
rustc_cmd(self, b, features, externs) ==
  [path |-> self.dir \o <<"/">> \o b.path,
   crate_name |-> IF b.type = "build_script" THEN <<"b", "u", "i", "l",
         "d", "_", "s", "c", "r", "i", "p", "t", "_">> \o b.name
                  ELSE b.name,
   crate_type |-> IF b.type = "lib" THEN "lib" ELSE "bin",
   cfg |-> features,
   extra_filename |-> extra_filename(self),
   externs |-> externs,
   links |-> IF b.type # "build_script" THEN b.links ELSE <<>>]

\* a queue that leaves out the binary of the build script
rustc_only(self, b, features, externs, env) ==
  <<[runner |-> "rustc", type |-> b.type,
     cmd |-> rustc_cmd(self, b, features, externs), env |-> env]>>

\* the runners queued for build target b: rustc, and the build script's
\* binary after it
runners(self, b, features, externs, env) ==
  <<[runner |-> "rustc", type |-> b.type,
     cmd |-> rustc_cmd(self, b, features, externs), env |-> env]>>
  \o (IF b.type = "build_script"
      THEN <<[runner |-> "script", type |-> b.type,
              cmd |-> [path |-> out_dir \o <<"/", "b", "u", "i", "l", "d",
                    "_", "s", "c", "r", "i", "p", "t",
                    "_">> \o b.name \o <<"-">>
                                \o replace(Semver_str(self.version), ".",
                                      "_")],
              env |-> env]>>
      ELSE <<>>)

\* cmds, from build target i on
RECURSIVE cmds_from(_, _, _, _, _)
cmds_from(self, i, features, externs, env) ==
  IF i > Len(self.build) THEN <<>>
  ELSE runners(self, self.build[i], features, externs, env)
       \o cmds_from(self, i + 1, features, externs, env)

\* the file rustc leaves in out_dir for a lib target
produced(c) ==
  IF c.runner = "rustc" /\ c.type = "lib"
  THEN {out_dir \o <<"/", "l", "i",
        "b">> \o c.cmd.crate_name \o c.cmd.extra_filename \o <<".", "r",
        "l", "i", "b">>}
  ELSE {}

(***************************************************************************)
(* BuildScriptRunner: the lines of the child's stdout, matched by BSCRIPT. *)
(***************************************************************************)
WhiteSpace == {" ", "\t"}

\* [^\s=]+ from i on: the index just after it
RECURSIVE KeyEnd(_, _)
KeyEnd(l, i) ==
  IF i <= Len(l) /\ l[i] \notin WhiteSpace /\ l[i] # "=" THEN KeyEnd(l, i + 1)
  ELSE i

\* BSCRIPT.match(l), e being where the key ends
BSCRIPT_at(l, e) ==
  IF e = 7 THEN NoMatch
  ELSE IF e > Len(l) THEN [key |-> SubSeq(l, 7, e - 1), value |-> None]
  ELSE IF l[e] = "=" /\ e < Len(l)
  THEN [key |-> SubSeq(l, 7, e - 1), value |-> SubSeq(l, e + 1, Len(l))]
  ELSE NoMatch

\* ^cargo:(?P<key>([^\s=]+))(=(?P<value>.+))?$
BSCRIPT(l) ==
  IF Len(l) < 6 \/ SubSeq(l, 1, 6) # <<"c", "a", "r", "g", "o",
        ":">> THEN NoMatch
  ELSE BSCRIPT_at(l, KeyEnd(l, 7))

\* the integer 1, which is no string
IntOne == [int |-> 1]

\* a runner that takes every key for one to export
all_exported(acc, k, v) == [acc EXCEPT !.denv = dict_put(@, k, v)]

\* one matched line on top of what the lines before it gave
script_line(acc, k, v) ==
  IF k = <<"r", "u", "s", "t", "c", "-", "l", "i", "n", "k", "-", "l",
        "i", "b">> THEN [acc EXCEPT !.cmd = @ \o <<<<"-", "l">>, v>>]
  ELSE IF k = <<"r", "u", "s", "t", "c", "-", "l", "i", "n", "k", "-",
        "s", "e", "a", "r", "c",
        "h">> THEN [acc EXCEPT !.cmd = @ \o <<<<"-", "L">>, v>>]
  ELSE IF k = <<"r", "u", "s", "t", "c", "-", "c", "f", "g">>
  THEN IF v = None THEN AttributeError
       ELSE [acc EXCEPT !.cmd = @ \o <<<<"-", "-", "c", "f", "g">>, v>>,
                        !.env = dict_put(@, <<"CARGO_FEATURE_">>
                                              \o replace(upper(v), "-", "_"),
                                         IntOne)]
  ELSE [acc EXCEPT !.denv = dict_put(@, k, v)]

\* the loop over self.output()
RECURSIVE script_parse(_, _)
script_parse(lines, acc) ==
  IF lines = <<>> \/ Raised(acc) THEN acc
  ELSE IF BSCRIPT(Head(lines)) = NoMatch THEN script_parse(Tail(lines), acc)
  ELSE script_parse(Tail(lines),
                    script_line(acc, BSCRIPT(Head(lines)).key,
                                BSCRIPT(Head(lines)).value))

\* while proc.poll() is None: l = proc.stdout.readline().rstrip('\n');
\* self._output.append(l) -- the child is seen to have exited after n turns,
\* and readline() at the end of the output gives ''
read_loop(lines, n) ==
  IF n <= Len(lines) THEN SubSeq(lines, 1, n)
  ELSE lines \o [i \in 1..(n - Len(lines)) |-> None]

\* what a runner returns for the lines it has read: (cmd, env, denv)
runner_call(c, lines) ==
  IF c.runner = "script"
  THEN script_parse(lines, [cmd |-> <<>>, env |-> <<>>, denv |-> <<>>])
  ELSE [cmd |-> <<>>, env |-> <<>>, denv |-> <<>>]

TypeError == [raised |-> "TypeError"]

\* Runner.__call__: cmd = self._cmd + c, env = dict(self._env, **e); Popen
\* raises on an environment with a value that is no string
popen(c, bcmd, benv) ==
  IF \E i \in 1..Len(benv) : benv[i].val = IntOne THEN TypeError
  ELSE [runner |-> c.runner, type |-> c.type, cmd |-> c.cmd, args |-> bcmd,
        env |-> dict_update(c.env, benv)]

(***************************************************************************)
(* A build script's runner on its own: the child writes up to MaxLines     *)
(* lines, the runner reads them all and interprets them.                   *)
(***************************************************************************)
MaxLines == 3

\* lines a build script may write: of each key the protocol knows, of keys
\* it does not know, with no value, and lines that are no cargo: lines
LineSamples ==
  {<<"c", "a", "r", "g", "o", ":", "r", "u", "s", "t", "c", "-", "l", "i", "n", "k", "-", "l", "i", "b", "=", "z">>,
   <<"c", "a", "r", "g", "o", ":", "r", "u", "s", "t", "c", "-", "l", "i", "n", "k", "-", "s", "e", "a", "r", "c", "h", "=", "/", "p">>,
   <<"c", "a", "r", "g", "o", ":", "r", "u", "s", "t", "c", "-", "c", "f", "g", "=", "f", "-", "x">>,
   <<"c", "a", "r", "g", "o", ":", "r", "o", "o", "t", "=", "/", "x">>,
   <<"c", "a", "r", "g", "o", ":", "r", "o", "o", "t", "=", "a", "=", "b">>,
   <<"c", "a", "r", "g", "o", ":", "i", "n", "c", "l", "u", "d", "e", "=", "/", "i">>,
   <<"c", "a", "r", "g", "o", ":", "r", "u", "s", "t", "c", "-", "c", "f", "g">>,
   <<"c", "a", "r", "g", "o", ":", "k", "=">>,
   <<"c", "a", "r", "g", "o", ":", "=", "v">>,
   <<"c", "a", "r", "g", "o", ":", "a", " ", "b", "=", "c">>,
   <<" ", "c", "a", "r", "g", "o", ":", "r", "o", "o", "t", "=", "/", "x">>,
   <<"w", "a", "r", "n", "i", "n", "g", ":", " ", "x", "=", "y">>,
   <<"r", "u", "s", "t", "c", "-", "l", "i", "n", "k", "-", "l", "i", "b", "=", "z">>,
   <<>>}

LineLists ==
  UNION {[1..n -> LineSamples] : n \in 0..MaxLines}

ScriptInit ==
  /\ script \in {[done |-> FALSE, lines |-> l] : l \in LineLists}
  /\ manifests = <<>>
  /\ disk = [dirs |-> {}, files |-> {}]
  /\ heap = <<>>
  /\ UNRESOLVED = <<>>
  /\ CRATES = <<>>
  /\ BUILT = <<>>
  /\ pc = "test"
  /\ cur = [id |-> 0, di |-> 0]
  /\ stack = <<>>
  /\ calls = <<>>
  /\ runs = <<>>
  /\ dls = <<>>
  /\ first = [done |-> FALSE]
  /\ idir = None
  /\ sv1 = None
  /\ sv2 = None
  /\ cmp = Idle
  /\ rt = Idle
  /\ req = None
  /\ rng = Idle
  /\ found = Idle

\* BuildScriptRunner.__call__ on a child whose lines are all read
ScriptCall ==
  /\ ~script.done
  /\ script' = [done |-> TRUE, lines |-> script.lines,
                ret |-> runner_call([runner |-> "script"],
                                    read_loop(script.lines, Len(script.lines)))]
  /\ UNCHANGED <<pureVars, idir, manifests, disk, heap, UNRESOLVED, CRATES,
                 BUILT, pc, cur, stack, calls, runs, dls, first>>

ScriptNext == ScriptCall

SpecScript == ScriptInit /\ [][ScriptNext]_vars

(***************************************************************************)
(* The worlds of a run: the registry index and the manifests of the        *)
(* packages' archives.  The root package a depends on b and c; b and c     *)
(* depend on d in several ways, on each other, or on nothing; d comes in   *)
(* one or two versions, may depend on itself or on b, and may have a build *)
(* script and a library named otherwise than the package.                  *)
(***************************************************************************)
\* args.cargo_root
cargo_root == <<"c", "a", "r", "g", "o">>

IndexDep(name, r) ==
  [name |-> name, req |-> r, kind |-> "normal", optional |-> FALSE,
   features |-> <<>>, default_features |-> TRUE, target |-> "absent"]

PlainDep(k, r) ==
  [k |-> k, plain |-> TRUE, req |-> r, path |-> FALSE, optional |-> FALSE]

TableDep(k, r) ==
  [k |-> k, plain |-> FALSE, req |-> r, path |-> FALSE, optional |-> FALSE]

\* a table with the keys 'path' and 'version'
PathDep(k, r) ==
  [k |-> k, plain |-> FALSE, req |-> r, path |-> TRUE, optional |-> FALSE]

\* the dependencies of b: in its index records, and in its manifest
DepsOfB ==
  {[index |-> <<>>, toml |-> <<>>],
   [index |-> <<IndexDep(<<"d">>, <<"^",
         "1">>)>>, toml |-> <<PlainDep(<<"d">>, <<"^", "1">>)>>],
   [index |-> <<[IndexDep(<<"d">>, <<"^",
         "1">>) EXCEPT !.features = <<<<"x">>>>],
                IndexDep(<<"c">>, <<"1">>)>>,
    toml |-> <<TableDep(<<"d">>, <<"^", "1">>), PlainDep(<<"c">>, <<"1">>)>>],
   [index |-> <<[IndexDep(<<"d">>, <<"^", "1">>) EXCEPT !.optional = TRUE]>>,
    toml |-> <<[TableDep(<<"d">>, <<"^", "1">>) EXCEPT !.optional = TRUE]>>],
   [index |-> <<[IndexDep(<<"d">>, <<"^", "1">>) EXCEPT !.optional = TRUE]>>,
    toml |-> <<[PathDep(<<"d">>, <<"^", "1">>) EXCEPT !.optional = TRUE]>>],
   [index |-> <<[IndexDep(<<"d">>, <<"^", "1">>) EXCEPT !.kind = "dev"],
                IndexDep(<<"c">>, <<"1">>)>>,
    toml |-> <<PlainDep(<<"c">>, <<"1">>)>>]}

DepsOfC ==
  {[index |-> <<>>, toml |-> <<>>],
   [index |-> <<IndexDep(<<"d">>, <<"1">>)>>, toml |-> <<PlainDep(<<"d">>, <<"1">>)>>],
   [index |-> <<IndexDep(<<"b">>, <<"1">>)>>, toml |-> <<PlainDep(<<"b">>, <<"1">>)>>],
   [index |-> <<[IndexDep(<<"d">>, <<"=", "1", ".", "0", ".",
         "0">>) EXCEPT !.default_features = FALSE]>>,
    toml |-> <<TableDep(<<"d">>, <<"=", "1", ".", "0", ".", "0">>)>>]}

DepsOfD ==
  {[index |-> <<>>, toml |-> <<>>],
   [index |-> <<IndexDep(<<"d">>, <<"1">>)>>, toml |-> <<PlainDep(<<"d">>, <<"1">>)>>],
   [index |-> <<IndexDep(<<"b">>, <<"1">>)>>, toml |-> <<TableDep(<<"b">>, <<"1">>)>>]}

VersionsOfD == {<<v100>>, <<v100, v110>>}

\* the manifest of a package without tables of its own
Manifest(name, vers, deps) ==
  [ok |-> TRUE,
   package |-> [name |-> name, version |-> vers, links |-> <<>>, build |-> None],
   lib |-> <<>>, bin |-> <<>>, dependencies |-> deps,
   sources |-> {<<"s", "r", "c", "/", "l", "i", "b", ".", "r", "s">>}]

\* the same with a build script and a [lib] table
Scripted(name, vers, deps) ==
  [ok |-> TRUE,
   package |-> [name |-> name, version |-> vers, links |-> <<<<"z">>>>,
                build |-> <<"b", "u", "i", "l", "d", ".", "r", "s">>],
   lib |-> <<[name |-> name \o name, path |-> None]>>, bin |-> <<>>,
   dependencies |-> deps,
   sources |-> {<<"b", "u", "i", "l", "d", ".", "r", "s">>, <<"s", "r",
         "c", "/", "l", "i", "b", ".", "r", "s">>}]

\* the manifest of the root package: a library and a binary
RootManifest(deps) ==
  [ok |-> TRUE,
   package |-> [name |-> <<"a">>, version |-> <<"0", ".", "1", ".",
         "0">>, links |-> <<>>,
                build |-> None],
   lib |-> <<[name |-> <<"a">>, path |-> <<"s", "r", "c", "/", "a", "/",
         "l", "i", "b", ".", "r", "s">>]>>,
   bin |-> <<[name |-> <<"a">>, path |-> None]>>,
   dependencies |-> deps,
   sources |-> {<<"s", "r", "c", "/", "a", "/", "l", "i", "b", ".", "r",
         "s">>, <<"s", "r", "c", "/", "b", "i", "n", "/", "a", ".", "r",
         "s">>}]

RootDeps ==
  {<<PlainDep(<<"b">>, <<"1">>), PlainDep(<<"c">>, <<"^",
        "1">>)>>, <<PlainDep(<<"b">>, <<"1">>)>>}

FeaturesOfD ==
  <<[key |-> <<"d", "e", "f", "a", "u", "l",
        "t">>, val |-> <<<<"x">>>>], [key |-> <<"x">>, val |-> <<<<"y">>>>]>>

IndexRecord(name, vers, deps, features) ==
  [name |-> name, vers |-> vers, deps |-> deps, features |-> features,
   cksum |-> vers]

WorldIndex(b, c, d, vd) ==
  (<<"b">> :> <<IndexRecord(<<"b">>, v100, b.index, <<>>)>>)
  @@ (<<"c">> :> <<IndexRecord(<<"c">>, v100, c.index, <<>>)>>)
  @@ (<<"d">> :> [i \in 1..Len(vd) |-> IndexRecord(<<"d">>, vd[i], d.index, FeaturesOfD)])

WorldManifests(root, b, c, d, scripted) ==
  (cargo_root :> RootManifest(root))
  @@ (cname(<<"b">>, v100) :> Manifest(<<"b">>, v100, b.toml))
  @@ (cname(<<"c">>, v100) :> Manifest(<<"c">>, v100, c.toml))
  @@ [n \in {cname(<<"d">>, v100), cname(<<"d">>, v110)} |->
        IF scripted THEN Scripted(<<"d">>, SubSeq(n, 3, Len(n)), d.toml)
        ELSE Manifest(<<"d">>, SubSeq(n, 3, Len(n)), d.toml)]

\* what is in the target directory before the run
Prebuilt == {{}, {out_dir \o <<"/", "l", "i", "b", "b", "-", "1", "_",
      "0", "_", "0", ".", "r", "l", "i", "b">>}}

Worlds ==
  {[idir |-> WorldIndex(b, c, d, vd),
    manifests |-> WorldManifests(root, b, c, d, scripted),
    files |-> files] :
     root \in RootDeps, b \in DepsOfB, c \in DepsOfC, d \in DepsOfD,
     vd \in VersionsOfD, scripted \in BOOLEAN, files \in Prebuilt}

(***************************************************************************)
(* __main__.  pc is where the run is: "main" before the root manifest is   *)
(* loaded, "resolve" in the loop over UNRESOLVED, "build" inside           *)
(* cargo_crate.build, "done" after sys.exit(0)'s worth of a normal end and *)
(* "failed" after sys.exit(1).  cur is the crate whose resolve() is        *)
(* running and the place of its next declaration.  stack holds the frames  *)
(* of the build() calls in progress, the innermost last.                   *)
(***************************************************************************)
NoCrate == [id |-> 0, di |-> 0]

\* the depth of build() calls the interpreter's recursion limit allows
MaxDepth == 7


(***************************************************************************)
(* The frames of build() and what the steps of a run share.                *)
(***************************************************************************)
\* the frame of a build() call just entered; call is its number in the run
Frame(id, by, features, call) ==
  [id |-> id, by |-> by, features |-> features, stage |-> "enter",
   todo |-> <<>>, externs |-> <<>>, cmds |-> <<>>, bcmd |-> <<>>,
   benv |-> <<>>, call |-> call]

Top == stack[Len(stack)]

\* self of the innermost build() call
Self == heap[Top.id]

SetTop(f) == [stack EXCEPT ![Len(stack)] = f]

\* a build() that never finds its crate in BUILT
never_cached(built, key) == FALSE

\* if BUILT.has_key(str(self))
build_cached(built, key) == has_key(built, key)

\* a build() that returns without recording its crate
not_put(built, key, by) == built

\* BUILT[str(self)] = str(by)
built_put(built, key, by) == dict_put(built, key, by)

\* what the child of a runner may write to its stdout
ScriptOutputs ==
  {<<>>,
   <<<<"c", "a", "r", "g", "o", ":", "r", "u", "s", "t", "c", "-", "l",
         "i", "n", "k", "-", "l", "i", "b", "=", "z">>, <<"c", "a", "r",
         "g", "o", ":", "r", "o", "o", "t", "=", "/", "x">>>>,
   <<<<"c", "a", "r", "g", "o", ":", "r", "u", "s", "t", "c", "-", "c",
         "f", "g", "=", "x">>>>}

ChildOutputs(c) == IF c.runner = "script" THEN ScriptOutputs ELSE {<<>>}

\* sys.exit: the target directory is removed unless --no-clean was given
Exit(code) ==
  /\ pc' = code
  /\ \E no_clean \in BOOLEAN :
       disk' = IF no_clean THEN disk ELSE [dirs |-> {}, files |-> {}]

\* the return of the innermost build() call: to __main__, or to the loop of
\* the caller (externs.append(extern); self._dep_env[name] = env)
Return(hp) ==
  IF Len(stack) = 1
  THEN /\ stack' = <<>>
       /\ heap' = hp
       /\ Exit("done")
  ELSE /\ stack' = [SubSeq(stack, 1, Len(stack) - 1) EXCEPT
                      ![Len(stack) - 1].externs =
                         Append(@, build_result(hp[Top.id]).extern)]
       /\ heap' = [hp EXCEPT ![stack[Len(stack) - 1].id].dep_env =
                     dict_put(@, hp[Top.id].crate, build_result(hp[Top.id]).env)]
       /\ UNCHANGED <<pc, disk>>

\* the root crate made of what its manifest gave
LoadCargoAs(info) ==
  IF Raised(Crate(info.name, info.ver, info.deps, cargo_root, info.build))
  THEN Exit("failed") /\ UNCHANGED <<heap, UNRESOLVED>>
  ELSE /\ heap' = <<Crate(info.name, info.ver, info.deps, cargo_root, info.build)>>
       /\ UNRESOLVED' = <<1>>
       /\ pc' = "resolve"
       /\ UNCHANGED disk

\* crate_info_from_toml(cdir) with the directories dirs on disk
read_toml(dirs, cdir, order) ==
  IF cdir \in dirs /\ cdir \in DOMAIN manifests
  THEN crate_info_from_toml(manifests[cdir], order)
  ELSE toml_failed

TomlOrders(cdir) ==
  IF cdir \in DOMAIN manifests THEN Orders(Len(manifests[cdir].dependencies))
  ELSE {<<>>}

\* the same without UNRESOLVED.append(dcrate)
not_appended(dcrate, features) ==
  /\ cur' = [cur EXCEPT !.di = @ + 1]
  /\ UNCHANGED UNRESOLVED
  /\ IF Raised(dcrate) THEN UNCHANGED heap
     ELSE IF has_key(CRATES, Crate_str(dcrate))
     THEN heap' = add_dep(heap, cur.id, dict_get(CRATES, Crate_str(dcrate)),
                          features)
     ELSE heap' = add_dep(Append(heap, dcrate), cur.id, Len(heap) + 1, features)

\* dcrate, UNRESOLVED.append(dcrate) and self.add_dep(dcrate, features)
Discover(dcrate, features) ==
  /\ cur' = [cur EXCEPT !.di = @ + 1]
  /\ IF Raised(dcrate) THEN UNCHANGED <<heap, UNRESOLVED>>
     ELSE IF has_key(CRATES, Crate_str(dcrate))
     THEN /\ UNRESOLVED' = Append(UNRESOLVED, dict_get(CRATES, Crate_str(dcrate)))
          /\ heap' = add_dep(heap, cur.id, dict_get(CRATES, Crate_str(dcrate)),
                             features)
     ELSE /\ UNRESOLVED' = Append(UNRESOLVED, Len(heap) + 1)
          /\ heap' = add_dep(Append(heap, dcrate), cur.id, Len(heap) + 1, features)

\* import pdb; pdb.set_trace() in the except branch of crate_info_from_toml:
\* the debugger is told to continue (TRUE), or it quits and BdbQuit leaves
\* the function (FALSE)
set_trace(tinfo) == IF tinfo.name = None THEN BOOLEAN ELSE {TRUE}

\* crate_info_from_toml(cdir), Crate(...) and the features of the edge
Unpacked(d, info, cdir, dirs) ==
  \E order \in TomlOrders(cdir) :
    \E resumed \in set_trace(read_toml(dirs, cdir, order)) :
      IF ~resumed
      THEN Exit("failed") /\ UNCHANGED <<cur, heap, UNRESOLVED>>
      ELSE /\ disk' = [disk EXCEPT !.dirs = dirs]
           /\ pc' = pc
           /\ Discover(Crate(info.name, info.ver,
                             info.deps \o read_toml(dirs, cdir, order).deps,
                             cdir, read_toml(dirs, cdir, order).build),
                       activated(info.ftrs, tftrs(d)))

\* what a download may give: an error, or an archive with the declared digest
\* or, for package d, with another one
Downloads(name) ==
  IF name = <<"d">> THEN {"good", "bad", "error"} ELSE {"good", "error"}

\* a comparison that raises on a digest other than the declared checksum
digest_required(net) == IF net = "bad" THEN IOError ELSE None

\* if h.hexdigest() == cksum: print ... else: print ...
digest_compared(net) == None

\* a check that looks in the registry only
registry_only(crates, dirs, cdir) == has_key(crates, cdir)

\* if CRATES.has_key(cname): return cdir; if not os.path.isdir(cdir): ...
already_there(crates, dirs, cdir) == has_key(crates, cdir) \/ cdir \in dirs

\* dl_and_check_crate(tdir, name, ver, cksum), cdir being the directory
Fetch(d, info, cdir) ==
  IF already_there(CRATES, disk.dirs, cdir)
  THEN UNCHANGED dls /\ Unpacked(d, info, cdir, disk.dirs)
  ELSE \E net \in Downloads(info.name) :
         IF net = "error"
         THEN Exit("failed") /\ UNCHANGED <<cur, heap, UNRESOLVED, dls>>
         ELSE /\ dls' = Append(dls, [dir |-> cdir, cksum |-> net])
              /\ IF Raised(digest_compared(net))
                 THEN Exit("failed") /\ UNCHANGED <<cur, heap, UNRESOLVED>>
                 ELSE Unpacked(d, info, cdir, disk.dirs \cup {cdir})

\* what crate_info_from_index gave, or the exception it raised
Looked(d, info) ==
  IF Raised(info)
  THEN Exit("failed") /\ UNCHANGED <<cur, heap, UNRESOLVED, dls>>
  ELSE Fetch(d, info, cname(info.name, info.ver))

\* a loop that skips no declaration for its kind
any_kind(d) == FALSE

\* kind = d.get('kind', 'normal'); if kind not in ('normal', 'build'): continue
kind_skipped(d) == d.kind \notin {"normal", "build"}

\* the body of the loop of resolve() for declaration d
ResolveDecl(d) ==
  IF kind_skipped(d) \/ d.optional
  THEN /\ cur' = [cur EXCEPT !.di = @ + 1]
       /\ UNCHANGED <<heap, UNRESOLVED, disk, dls, pc>>
  ELSE IF Raised(SemverRange(d.req))
  THEN Exit("failed") /\ UNCHANGED <<cur, heap, UNRESOLVED, dls>>
  ELSE \E order \in IterOrders(index_passed(idir, d.name, SemverRange(d.req))) :
         Looked(d, crate_info_from_index(idir, d.name, SemverRange(d.req), order))

\* a loop over cmds that takes every returncode for 0
never_failed(rc) == FALSE

\* if c.returncode() != 0
command_failed(rc) == rc # 0

\* the rest of the turn of the loop over cmds, ret being what the runner gave
RunReturned(rc, ret) ==
  IF Raised(ret) \/ command_failed(rc)
  THEN Exit("failed") /\ UNCHANGED <<stack, heap>>
  ELSE /\ stack' = SetTop([Top EXCEPT !.cmds = Tail(@),
                                      !.bcmd = @ \o ret.cmd,
                                      !.benv = dict_update(@, ret.env)])
       /\ heap' = [heap EXCEPT ![Top.id].env = dict_update(@, ret.denv)]
       /\ disk' = [disk EXCEPT !.files = @ \cup produced(Head(Top.cmds))]
       /\ pc' = pc

\* the child of runner inv has written lines and ended with returncode rc;
\* the runner has read out of them
RunAs(inv, rc, lines, out) ==
  IF Raised(inv) THEN Exit("failed") /\ UNCHANGED <<stack, heap, runs>>
  ELSE /\ runs' = Append(runs, [key |-> Crate_str(Self), call |-> Top.call,
                                inv |-> inv, rc |-> rc, wrote |-> lines,
                                output |-> out])
       /\ RunReturned(rc, runner_call(Head(Top.cmds), out))

\* no test of test_semver has been evaluated
NoTests ==
  /\ sv1 = None
  /\ sv2 = None
  /\ cmp = Idle
  /\ rt = Idle
  /\ req = None
  /\ rng = Idle
  /\ found = Idle

Init ==
  /\ \E w \in Worlds :
       /\ idir = w.idir
       /\ manifests = w.manifests
       /\ disk = [dirs |-> {}, files |-> w.files]
  /\ heap = <<>>
  /\ UNRESOLVED = <<>>
  /\ CRATES = <<>>
  /\ BUILT = <<>>
  /\ pc = "main"
  /\ cur = NoCrate
  /\ stack = <<>>
  /\ calls = <<>>
  /\ runs = <<>>
  /\ dls = <<>>
  /\ first = Idle
  /\ script = Idle
  /\ NoTests

\* name, ver, deps, build = crate_info_from_toml(args.cargo_root);
\* cargo_crate = Crate(...); UNRESOLVED.append(cargo_crate)
LoadCargo ==
  /\ pc = "main"
  /\ \E order \in Orders(Len(manifests[cargo_root].dependencies)) :
       LoadCargoAs(crate_info_from_toml(manifests[cargo_root], order))
  /\ UNCHANGED <<idir, manifests, CRATES, BUILT, cur, stack, calls, runs, dls,
                 pureVars, first, script>>

\* a resolve() that never returns early
never_returns(self, crates) == FALSE

\* a resolve() that looks at its own flag only
own_flag_only(self, crates) == self.resolved

\* if self._resolved: return; if CRATES.has_key(str(self)): return
resolve_returns(self, crates) ==
  self.resolved \/ has_key(crates, Crate_str(self))

\* UNRESOLVED.pop(): what is left when the last entry is taken instead
pop_last(unresolved) == SubSeq(unresolved, 1, Len(unresolved) - 1)

\* UNRESOLVED.pop(0): what is left of the worklist
pop_rest(unresolved) == Tail(unresolved)

\* crate = UNRESOLVED.pop(0); crate.resolve(...) up to its loop
PopUnresolved ==
  /\ pc = "resolve"
  /\ cur = NoCrate
  /\ UNRESOLVED # <<>>
  /\ UNRESOLVED' = pop_rest(UNRESOLVED)
  /\ cur' = IF resolve_returns(heap[Head(UNRESOLVED)], CRATES)
            THEN NoCrate
            ELSE [id |-> Head(UNRESOLVED), di |-> 1]
  /\ UNCHANGED <<idir, manifests, disk, heap, CRATES, BUILT, pc, stack, calls,
                 runs, dls, pureVars, first, script>>

\* one turn of the loop over self._dep_info
ResolveDep ==
  /\ pc = "resolve"
  /\ cur # NoCrate
  /\ cur.di <= Len(heap[cur.id].dep_info)
  /\ ResolveDecl(heap[cur.id].dep_info[cur.di])
  /\ UNCHANGED <<idir, manifests, CRATES, BUILT, stack, calls, runs, pureVars, first, script>>

\* self._resolved = True; CRATES[str(self)] = self
ResolveEnd ==
  /\ pc = "resolve"
  /\ cur # NoCrate
  /\ cur.di > Len(heap[cur.id].dep_info)
  /\ heap' = [heap EXCEPT ![cur.id].resolved = TRUE]
  /\ CRATES' = dict_put(CRATES, Crate_str(heap[cur.id]), cur.id)
  /\ cur' = NoCrate
  /\ UNCHANGED <<idir, manifests, disk, UNRESOLVED, BUILT, pc, stack, calls,
                 runs, dls, pureVars, first, script>>

\* cargo_crate.build('bootstrap.py', args.target_dir)
StartBuild ==
  /\ pc = "resolve"
  /\ cur = NoCrate
  /\ UNRESOLVED = <<>>
  /\ pc' = "build"
  /\ stack' = <<Frame(1, <<"b", "o", "o", "t", "s", "t", "r", "a", "p",
        ".", "p", "y">>, <<>>, 1)>>
  /\ calls' = <<Crate_str(heap[1])>>
  /\ UNCHANGED <<idir, manifests, disk, heap, UNRESOLVED, CRATES, BUILT, cur,
                 runs, dls, pureVars, first, script>>

\* build() up to its loop: the cached result, or the order of the loop
BuildEnter ==
  /\ pc = "build"
  /\ Top.stage = "enter"
  /\ IF build_cached(BUILT, Crate_str(Self))
     THEN Return(heap) /\ UNCHANGED BUILT
     ELSE /\ \E order \in Orders(Len(Self.deps)) :
               stack' = SetTop([Top EXCEPT !.stage = "deps",
                                           !.todo = Permute(Self.deps, order)])
          /\ UNCHANGED <<heap, pc, disk, BUILT>>
  /\ UNCHANGED <<idir, manifests, UNRESOLVED, CRATES, cur, calls, runs, dls,
                 pureVars, first, script>>

\* a loop over self._deps that ends after its first turn
first_entry_only(todo) == <<>>

\* a loop over self._deps that stays at the same entry
same_entry(todo) == todo

\* for (name, info) in self._deps.iteritems(): the entries still to come
next_entry(todo) == Tail(todo)

\* one turn of the loop over self._deps: the call of the dependency's build()
BuildDep ==
  /\ pc = "build"
  /\ Top.stage = "deps"
  /\ Top.todo # <<>>
  /\ IF ~has_key(CRATES, Head(Top.todo).key)
     THEN /\ stack' = SetTop([Top EXCEPT !.todo = next_entry(@)])
          /\ UNCHANGED <<pc, disk, calls>>
     ELSE IF Len(stack) >= MaxDepth
     THEN Exit("failed") /\ UNCHANGED <<stack, calls>>
     ELSE /\ stack' = Append(SetTop([Top EXCEPT !.todo = next_entry(@)]),
                             Frame(dict_get(CRATES, Head(Top.todo).key),
                                   Crate_str(Self), Head(Top.todo).val,
                                   Len(calls) + 1))
          /\ calls' = Append(calls, Head(Top.todo).key)
          /\ UNCHANGED <<pc, disk>>
  /\ UNCHANGED <<idir, manifests, heap, UNRESOLVED, CRATES, BUILT, cur, runs,
                 dls, pureVars, first, script>>

\* after the loop: the output that is already there, or the runners queued
BuildPrepare ==
  /\ pc = "build"
  /\ Top.stage = "deps"
  /\ Top.todo = <<>>
  /\ IF output(Self) \in disk.files
     THEN /\ BUILT' = dict_put(BUILT, Crate_str(Self), Top.by)
          /\ Return(heap)
     ELSE /\ stack' = SetTop([Top EXCEPT
                 !.stage = "run",
                 !.cmds = cmds_from(Self, 1, Top.features, Top.externs,
                                    build_env(Self, Top.features))])
          /\ UNCHANGED <<heap, pc, disk, BUILT>>
  /\ UNCHANGED <<idir, manifests, UNRESOLVED, CRATES, cur, calls, runs, dls,
                 pureVars, first, script>>

\* the numbers of turns of the read loop before the exit of a child that
\* wrote lines is seen: any, up to one turn past the end of the output
Turns(lines) == IF lines = <<>> THEN {0} ELSE 0..(Len(lines) + 1)

\* one turn of the loop over cmds: a child process and what it returns
BuildRun ==
  /\ pc = "build"
  /\ Top.stage = "run"
  /\ Top.cmds # <<>>
  /\ \E rc \in {0, 1}, lines \in ChildOutputs(Head(Top.cmds)) :
       \E n \in Turns(lines) :
         RunAs(popen(Head(Top.cmds), Top.bcmd, Top.benv), rc, lines,
               read_loop(lines, n))
  /\ UNCHANGED <<idir, manifests, UNRESOLVED, CRATES, BUILT, cur, calls, dls,
                 pureVars, first, script>>

\* BUILT[str(self)] = str(by) and the return
BuildEnd ==
  /\ pc = "build"
  /\ Top.stage = "run"
  /\ Top.cmds = <<>>
  /\ BUILT' = built_put(BUILT, Crate_str(Self), Top.by)
  /\ Return(heap)
  /\ UNCHANGED <<idir, manifests, UNRESOLVED, CRATES, cur, calls, runs, dls,
                 pureVars, first, script>>

Next ==
  \/ LoadCargo
  \/ PopUnresolved
  \/ ResolveDep
  \/ ResolveEnd
  \/ StartBuild
  \/ BuildEnter
  \/ BuildDep
  \/ BuildPrepare
  \/ BuildRun
  \/ BuildEnd

Spec == Init /\ [][Next]_vars

(***************************************************************************)
(* A run in which the archive of b or of c unpacks to a Cargo.toml that    *)
(* toml.load() cannot read.                                                *)
(***************************************************************************)
Unreadable(m) == [m EXCEPT !.ok = FALSE]

MalformedWorlds ==
  {[w EXCEPT !.manifests = [@ EXCEPT ![cname(n, v100)] = Unreadable(@)]] :
     w \in {x \in Worlds :
              /\ x.files = {}
              /\ Len(x.idir[<<"d">>]) = 1
              /\ x.manifests[cname(<<"d">>, v100)].package.build = None},
     n \in {<<"b">>, <<"c">>}}

MalformedInit ==
  /\ \E w \in MalformedWorlds :
       /\ idir = w.idir
       /\ manifests = w.manifests
       /\ disk = [dirs |-> {}, files |-> w.files]
  /\ heap = <<>>
  /\ UNRESOLVED = <<>>
  /\ CRATES = <<>>
  /\ BUILT = <<>>
  /\ pc = "main"
  /\ cur = NoCrate
  /\ stack = <<>>
  /\ calls = <<>>
  /\ runs = <<>>
  /\ dls = <<>>
  /\ first = Idle
  /\ script = Idle
  /\ NoTests

SpecMalformed == MalformedInit /\ [][Next]_vars

(***************************************************************************)
(* Two runs of __main__, one after the other, on the same root manifest,   *)
(* index and target, each starting from an empty target directory.         *)
(***************************************************************************)
\* the worlds run twice: a depends on b and c, b on d, and d has a build
\* script or has none
TwiceWorlds ==
  {w \in Worlds :
     /\ w.files = {}
     /\ Len(w.manifests[cargo_root].dependencies) = 2
     /\ w.manifests[cname(<<"b">>, v100)].dependencies = <<PlainDep(<<"d">>, <<"^", "1">>)>>
     /\ w.manifests[cname(<<"c">>, v100)].dependencies = <<>>
     /\ w.manifests[cname(<<"d">>, v100)].dependencies = <<>>
     /\ Len(w.idir[<<"d">>]) = 1}

TwiceInit ==
  /\ \E w \in TwiceWorlds :
       /\ idir = w.idir
       /\ manifests = w.manifests
       /\ disk = [dirs |-> {}, files |-> w.files]
  /\ heap = <<>>
  /\ UNRESOLVED = <<>>
  /\ CRATES = <<>>
  /\ BUILT = <<>>
  /\ pc = "main"
  /\ cur = NoCrate
  /\ stack = <<>>
  /\ calls = <<>>
  /\ runs = <<>>
  /\ dls = <<>>
  /\ first = Idle
  /\ script = Idle
  /\ NoTests

\* the nodes of the run in the order in which resolution made them
NodeOrder == [i \in 1..Len(heap) |-> Crate_str(heap[i])]

\* the first run has completed; the second starts from what the first
\* started from
Rerun ==
  /\ pc = "done"
  /\ ~first.done
  /\ first' = [done |-> TRUE, nodes |-> NodeOrder, calls |-> calls,
               runs |-> runs, dls |-> dls]
  /\ disk' = [dirs |-> {}, files |-> {}]
  /\ heap' = <<>>
  /\ UNRESOLVED' = <<>>
  /\ CRATES' = <<>>
  /\ BUILT' = <<>>
  /\ pc' = "main"
  /\ cur' = NoCrate
  /\ stack' = <<>>
  /\ calls' = <<>>
  /\ runs' = <<>>
  /\ dls' = <<>>
  /\ UNCHANGED <<idir, manifests, pureVars, script>>

TwiceNext ==
  \/ LoadCargo
  \/ PopUnresolved
  \/ ResolveDep
  \/ ResolveEnd
  \/ StartBuild
  \/ BuildEnter
  \/ BuildDep
  \/ BuildPrepare
  \/ BuildRun
  \/ BuildEnd
  \/ Rerun

SpecTwice == TwiceInit /\ [][TwiceNext]_vars

(***************************************************************************)
(* Semantic-version precedence as the specification words it, for the      *)
(* properties below to compare the code against.                           *)
(***************************************************************************)
Triple(v) == <<parts(v)[1], parts(v)[2], parts(v)[3]>>

TripleLess(a, b) ==
  \/ a[1] < b[1]
  \/ a[1] = b[1] /\ a[2] < b[2]
  \/ a[1] = b[1] /\ a[2] = b[2] /\ a[3] < b[3]

\* one identifier below another: numeric by value, numeric below non-numeric,
\* non-numeric in byte order
IdentLess(l, r) ==
  IF isdigit(l) /\ isdigit(r) THEN int(l) < int(r)
  ELSE IF isdigit(l) THEN TRUE
  ELSE IF isdigit(r) THEN FALSE
  ELSE StrLt(l, r)

\* the first differing pair decides; with all shared pairs equal the shorter
\* list is lower
RECURSIVE IdentsLess(_, _)
IdentsLess(l, r) ==
  IF Len(r) = 0 THEN FALSE
  ELSE IF Len(l) = 0 THEN TRUE
  ELSE IF IdentLess(l[1], r[1]) THEN TRUE
  ELSE IF IdentLess(r[1], l[1]) THEN FALSE
  ELSE IdentsLess(Tail(l), Tail(r))

PrereleaseLess(a, b) ==
  \/ a.prerelease # None /\ b.prerelease = None
  \/ a.prerelease # None /\ b.prerelease # None
       /\ IdentsLess(a.container, b.container)

PrecedenceLess(a, b) ==
  \/ TripleLess(Triple(a), Triple(b))
  \/ Triple(a) = Triple(b) /\ PrereleaseLess(a, b)

A1 == Semver(sv1)

A2 == Semver(sv2)

\* C4: a < b holds exactly when a's numeric triple is lexicographically
\* smaller than b's, or the triples are equal and a's prerelease has lower
\* precedence than b's.
C4_LtIsLexicographic ==
  cmp.done => ((cmp.lt = "True") <=> PrecedenceLess(A1, A2))

\* C5: for all versions a and b exactly one of a < b, a == b, a > b holds.
C5_ExactlyOne ==
  cmp.done =>
    Cardinality({r \in {"lt", "eq", "gt"} : cmp[r] = "True"}) = 1

\* C6: '<' is irreflexive, asymmetric and transitive over all parsed
\* versions.
C6_StrictOrder ==
  cmp.done =>
    /\ Semver_lt(A1, A1) # "True"
    /\ ~(cmp.lt = "True" /\ cmp.rlt = "True")
    /\ \A s3 \in VersionStrings :
         (cmp.lt = "True" /\ Semver_lt(A2, Semver(s3)) = "True")
           => Semver_lt(A1, Semver(s3)) = "True"

OnlyBuildDiffers(a, b) ==
  /\ Triple(a) = Triple(b)
  /\ a.prerelease = b.prerelease
  /\ a.build # b.build

\* C7: for two versions that differ only in build metadata neither a < b nor
\* a > b holds, and a <= b and a >= b both hold.
C7_BuildIgnoredByOrdering ==
  (cmp.done /\ OnlyBuildDiffers(A1, A2)) =>
    /\ cmp.lt = "False"
    /\ cmp.gt = "False"
    /\ cmp.le = "True"
    /\ cmp.ge = "True"

\* C8: with equal numeric triples and a prerelease on both sides, the
\* identifiers are compared pairwise left to right and the first differing
\* pair decides; the number of identifiers decides only when all shared
\* identifiers are equal.
C8_PrereleasePairwise ==
  (/\ cmp.done
   /\ Triple(A1) = Triple(A2)
   /\ A1.prerelease # None
   /\ A2.prerelease # None) =>
    ((cmp.lt = "True") <=> IdentsLess(A1.container, A2.container))

SameVersion(a, b) ==
  /\ Triple(a) = Triple(b)
  /\ a.prerelease = b.prerelease
  /\ a.build = b.build

\* C9: parsing the string form of parse(v) yields a version equal to
\* parse(v); omitted minor and patch are printed as 0, so that every
\* spelling of one version prints the same string and compares equal.
C9_RoundTrip ==
  rt.done =>
    /\ rt.reparsed # ValueError
    /\ Semver_eq(rt.reparsed, rt.parsed) = "True"
    /\ rt.reparsed.minor = ZeroFill(rt.parsed.minor)
    /\ rt.reparsed.patch = ZeroFill(rt.parsed.patch)
    /\ \A s \in VersionStrings :
         SameVersion(Semver(s), rt.parsed) =>
           /\ Semver_str(Semver(s)) = rt.text
           /\ Semver_eq(Semver(s), rt.parsed) = "True"

\* a version with minor and patch omitted, a prerelease and build metadata
\* has gone through the round trip
C9_Witness ==
  /\ rt.done
  /\ rt.parsed.minor = None
  /\ rt.parsed.prerelease # None
  /\ rt.parsed.build # None
  /\ rt.text # sv1

\* the components a range gives, as numbers, minor and patch only when written
Given(r) ==
  <<int(r.major)>>
    \o (IF r.minor = None THEN <<>> ELSE <<int(r.minor)>>)
    \o (IF r.patch = None THEN <<>> ELSE <<int(r.patch)>>)

\* the left-most non-zero given component; the last one when all are zero
Pivot(g) ==
  IF \E i \in 1..Len(g) : g[i] # 0
  THEN CHOOSE i \in 1..Len(g) : g[i] # 0 /\ \A j \in 1..(i - 1) : g[j] = 0
  ELSE Len(g)

ZeroFilled(g) == [i \in 1..3 |-> IF i <= Len(g) THEN g[i] ELSE 0]

\* the pivot incremented, everything to its right zero
CaretUpper(g) ==
  [i \in 1..3 |-> IF i < Pivot(g) THEN g[i]
                  ELSE IF i = Pivot(g) THEN g[i] + 1 ELSE 0]

IsCaret(r) == r # ValueError /\ r.op = <<"^">>

\* C10: for every caret range, written or defaulted, lower() is the
\* zero-filled given version and upper() is the given version with its
\* left-most non-zero component incremented and everything to the right of
\* it zero.
C10_CaretBounds ==
  (rng.stage \in {"bounds", "compared"} /\ IsCaret(rng.range)) =>
    /\ rng.lower \notin {PyNone, RuntimeError, ValueError}
    /\ rng.upper \notin {PyNone, RuntimeError, ValueError}
    /\ Triple(rng.lower) = ZeroFilled(Given(rng.range))
    /\ Triple(rng.upper) = CaretUpper(Given(rng.range))

\* the release with the numeric triple t
Release(t) ==
  [major |-> str(t[1]), minor |-> str(t[2]), patch |-> str(t[3]),
   prerelease |-> None, build |-> None, container |-> <<>>]

\* v lies in the half-open interval the specification gives range r: a caret
\* range or the bare wildcard
Satisfies(r, v) ==
  IF r.op = <<"*">> /\ r.major = <<"*">> THEN TRUE
  ELSE /\ ~PrecedenceLess(v, Release(ZeroFilled(Given(r))))
       /\ PrecedenceLess(v, Release(CaretUpper(Given(r))))

\* the versions of the records of the looked-up file that satisfy req
Satisfying ==
  {idir[<<"d">>][i].vers : i \in 1..Len(idir[<<"d">>])}
    \cap {v \in IndexVersions \ {None} : Satisfies(SemverRange(req), Semver(v))}

\* C3: the index lookup returns a record whose version satisfies the range
\* and no other satisfying record of the file has higher precedence,
\* whatever the order of the records.
C3_LookupIsMaximum ==
  (found.done /\ Satisfying # {}) =>
    /\ ~Raised(found.info)
    /\ found.info.ver \in Satisfying
    /\ \A v \in Satisfying : ~PrecedenceLess(Semver(found.info.ver), Semver(v))

\* the resolution loop has ended: cargo_crate.build has been called
ResolutionFinished == calls # <<>>

\* the registry's node for the name-version key
Node(key) == heap[dict_get(CRATES, key)]

\* C1: when resolution finishes the registry holds one node per
\* name-version, and the node's referrers contain every package of the
\* registry that has a dependency edge to it.
C1_RegistryReferrers ==
  ResolutionFinished =>
    /\ \A i, j \in 1..Len(CRATES) : CRATES[i].key = CRATES[j].key => i = j
    /\ \A i, j \in 1..Len(CRATES) :
         has_key(Node(CRATES[i].key).deps, CRATES[j].key) =>
           \E n \in 1..Len(Node(CRATES[j].key).refs) :
             Node(CRATES[j].key).refs[n] = CRATES[i].key

\* C2: the child processes run for one name-version are all run by one
\* build() call, however many build() calls there are for it.
C2_OneBuildCallInvokes ==
  \A i, j \in 1..Len(runs) :
    runs[i].key = runs[j].key => runs[i].call = runs[j].call

\* a run that ended well in which build() was called twice for a
\* name-version whose child processes were run
C2_Witness ==
  /\ pc = "done"
  /\ \E m, n \in 1..Len(calls) :
       /\ m < n
       /\ calls[m] = calls[n]
       /\ \E i \in 1..Len(runs) : runs[i].key = calls[m]

\* the range rng holds has bounds, and was written as a tilde range
IsTilde(r) == r # ValueError /\ r.op = <<"~">>

\* the range is M.* (wild = 2) or M.m.* (wild = 3)
IsWild(r, wild) ==
  /\ r # ValueError
  /\ r.op = <<"*">>
  /\ r.major # <<"*">>
  /\ IF wild = 2 THEN r.minor = <<"*">> /\ r.patch = None
     ELSE r.minor \notin {None, <<"*">>} /\ r.patch = <<"*">>

\* a tilde range ends at the next minor, at the next major when only the
\* major is given
TildeUpper(g) ==
  IF Len(g) = 1 THEN <<g[1] + 1, 0, 0>> ELSE <<g[1], g[2] + 1, 0>>

HasBounds == rng.stage \in {"bounds", "compared"}

\* C11: ~M.m.p is [M.m.p, M.(m+1).0), ~M.m is [M.m.0, M.(m+1).0), ~M is
\* [M.0.0, (M+1).0.0), M.* is [M.0.0, (M+1).0.0), M.m.* is
\* [M.m.0, M.(m+1).0), and a bare * has lower 0.0.0 and no upper bound.
C11_TildeWildcardBounds ==
  /\ (HasBounds /\ IsTilde(rng.range)) =>
       /\ rng.lower = Release(ZeroFilled(Given(rng.range)))
       /\ rng.upper = Release(TildeUpper(Given(rng.range)))
  /\ (HasBounds /\ IsWild(rng.range, 2)) =>
       /\ rng.lower = Release(<<int(rng.range.major), 0, 0>>)
       /\ rng.upper = Release(<<int(rng.range.major) + 1, 0, 0>>)
  /\ (HasBounds /\ IsWild(rng.range, 3)) =>
       /\ rng.lower = Release(<<int(rng.range.major), int(rng.range.minor), 0>>)
       /\ rng.upper = Release(<<int(rng.range.major), int(rng.range.minor) + 1, 0>>)
  /\ (HasBounds /\ req = <<"*">>) =>
       /\ rng.lower = Release(<<0, 0, 0>>)
       /\ rng.upper = PyNone

\* the bounds of ~1.1.1 have been computed
C11_Witness ==
  /\ rng.stage = "bounds"
  /\ req = <<"~", "1", ".", "1", ".", "1">>
  /\ rng.upper = Release(<<1, 2, 0>>)

\* C12: the bare * accepts every parsed version, with or without a
\* prerelease.
C12_StarAcceptsAll ==
  (rng.stage = "compared" /\ req = <<"*">>) => rng.compare = "True"

\* a caret, tilde or partial-wildcard range: one with both bounds
IsBounded(r) ==
  /\ r # ValueError
  /\ \/ r.op \in {<<"^">>, <<"~">>}
     \/ r.op = <<"*">> /\ r.major # <<"*">>

\* C13: for a caret, tilde or partial-wildcard range r, r.compare(v) is true
\* exactly when v is at or above r.lower() and strictly below r.upper() in
\* semantic-version precedence.
C13_CompareIsInterval ==
  (rng.stage = "compared" /\ IsBounded(rng.range)) =>
    (rng.compare = "True" <=>
       /\ ~PrecedenceLess(Semver(sv1), rng.lower)
       /\ PrecedenceLess(Semver(sv1), rng.upper))

\* the declarations the index record of crate p has of package n
IndexDecls(p, n) ==
  IF p.crate \notin DOMAIN idir THEN {}
  ELSE UNION {{idir[p.crate][i].deps[j] : j \in 1..Len(idir[p.crate][i].deps)} :
                i \in {i \in 1..Len(idir[p.crate]) :
                         Semver(idir[p.crate][i].vers) = p.version}}
       \cap {d \in UNION {{idir[p.crate][i].deps[j] :
                              j \in 1..Len(idir[p.crate][i].deps)} :
                            i \in 1..Len(idir[p.crate])} : d.name = n}

\* the declarations the manifest of crate p has of package n
TomlDecls(p, n) ==
  {manifests[p.dir].dependencies[j] :
     j \in {j \in 1..Len(manifests[p.dir].dependencies) :
              manifests[p.dir].dependencies[j].k = n}}

\* p declares a dependency on n, and every declaration of n that p has, in
\* its index record and in its manifest, says optional
OptionalOnly(p, n) ==
  /\ IndexDecls(p, n) \cup TomlDecls(p, n) # {}
  /\ \A d \in IndexDecls(p, n) : d.optional
  /\ \A d \in TomlDecls(p, n) : d.optional

\* C14: a dependency that a package declares optional, and nothing
\* activates, gives the package no dependency edge: no registry node,
\* worklist entry or download is made because of it.
C14_OptionalNeverResolved ==
  \A i, h \in 1..Len(heap) :
    OptionalOnly(heap[i], heap[h].crate) =>
      ~has_key(heap[i].deps, Crate_str(heap[h]))

\* the elements of a list
Elems(xs) == {xs[i] : i \in 1..Len(xs)}

\* the feature map the index gives for the name-version of crate p
FeatureMap(p) ==
  IF p.crate \notin DOMAIN idir THEN <<>>
  ELSE IF \A i \in 1..Len(idir[p.crate]) :
            Semver(idir[p.crate][i].vers) # p.version
  THEN <<>>
  ELSE idir[p.crate][CHOOSE i \in 1..Len(idir[p.crate]) :
                       Semver(idir[p.crate][i].vers) = p.version].features

\* the set fs is closed under the feature map m
Closed(fs, m) ==
  \A f \in fs : has_key(m, f) => Elems(dict_get(m, f)) \subseteq fs

\* C15: the activated features of a dependency edge are closed under the
\* feature map of the package the edge points to.
C15_FeatureClosure ==
  \A i, h \in 1..Len(heap) :
    has_key(heap[i].deps, Crate_str(heap[h])) =>
      Closed(Elems(dict_get(heap[i].deps, Crate_str(heap[h]))),
             FeatureMap(heap[h]))

\* the registry keys the registry node of key k has dependency edges to
DepKeys(k) ==
  {Node(k).deps[i].key : i \in 1..Len(Node(k).deps)}
    \cap {CRATES[j].key : j \in 1..Len(CRATES)}

\* the keys reached from the keys ks over at most n more edges
RECURSIVE ReachFrom(_, _)
ReachFrom(ks, n) ==
  IF n = 0 THEN ks
  ELSE ReachFrom(ks \cup UNION {DepKeys(k) : k \in ks}, n - 1)

\* the registry node of key p depends on the one of key k, directly or not
DependsOn(p, k) == k \in ReachFrom(DepKeys(p), Len(CRATES))

\* C16: a child process that ends with a non-zero exit code is the last one
\* of the run, the run exits non-zero, and neither its package nor any
\* package depending on it is recorded as built.
C16_FailureAborts ==
  \A i \in 1..Len(runs) :
    runs[i].rc # 0 =>
      /\ i = Len(runs)
      /\ pc = "failed"
      /\ ~has_key(BUILT, runs[i].key)
      /\ \A j \in 1..Len(CRATES) :
           DependsOn(CRATES[j].key, runs[i].key) => ~has_key(BUILT, CRATES[j].key)

\* a command of a package with dependents failed after another package had
\* been built
C16_Witness ==
  /\ pc = "failed"
  /\ BUILT # <<>>
  /\ \E i \in 1..Len(runs) :
       /\ runs[i].rc # 0
       /\ \E j, k \in 1..Len(CRATES) :
            /\ j # k
            /\ DependsOn(CRATES[j].key, runs[i].key)
            /\ DependsOn(CRATES[k].key, runs[i].key)

\* the name DEP_<P>_<KEY> of the variable for key k exported by package p
DepVar(p, k) == <<"DEP_">> \o upper(p) \o <<"_">> \o upper(k)

\* the environment env carries every key/value pair package p exported
Exported(env, p) ==
  \A n \in 1..Len(p.env) :
    /\ has_key(env, DepVar(p.crate, p.env[n].key))
    /\ dict_get(env, DepVar(p.crate, p.env[n].key)) = p.env[n].val

\* C17: the environment of every invocation of a package carries, for each
\* pair exported by the build step of a direct dependency P, the variable
\* DEP_<P>_<KEY> with the exported value.
C17_DepEnvExported ==
  \A i \in 1..Len(runs) :
    \A k \in DepKeys(runs[i].key) :
      k # runs[i].key => Exported(runs[i].inv.env, Node(k))

\* an archive whose digest differs from the declared checksum is downloaded
BadChecksum == Len(dls') = Len(dls) + 1 /\ dls'[Len(dls')].cksum = "bad"

\* the archive is unpacked and the run goes on with its package in the graph
Proceeds ==
  /\ dls'[Len(dls')].dir \in disk'.dirs
  /\ pc' = "resolve"
  /\ heap'[UNRESOLVED'[Len(UNRESOLVED')]].dir = dls'[Len(dls')].dir
  /\ has_key(heap'[cur.id].deps, dls'[Len(dls')].dir)

\* C18: a download whose digest differs from the declared checksum does not
\* abort the run: the archive is unpacked and its package added to the graph
\* in the same step, and a run that completes has recorded it as built.
C18_BadChecksumProceeds ==
  /\ [][BadChecksum => Proceeds]_vars
  /\ [](pc = "done" =>
         \A i \in 1..Len(dls) : dls[i].cksum = "bad" => has_key(BUILT, dls[i].dir))

\* a run completed after a download with a digest other than the checksum
C18_Witness ==
  /\ pc = "done"
  /\ \E i \in 1..Len(dls) : dls[i].cksum = "bad" /\ has_key(BUILT, dls[i].dir)
  /\ \E i \in 1..Len(runs) : \E j \in 1..Len(dls) :
       dls[j].cksum = "bad" /\ runs[i].key = dls[j].dir

\* the lines of xs that BSCRIPT matches
RECURSIVE Matched(_)
Matched(xs) ==
  IF xs = <<>> THEN <<>>
  ELSE IF BSCRIPT(Head(xs)) = NoMatch THEN Matched(Tail(xs))
  ELSE <<Head(xs)>> \o Matched(Tail(xs))

\* C19: what the runner of a build step has captured holds every line the
\* child wrote, whenever the exit of the child was seen.
C19_AllLinesCaptured ==
  \A i \in 1..Len(runs) :
    runs[i].inv.runner = "script" => Matched(runs[i].output) = Matched(runs[i].wrote)

\* how the children of the run whose log is rs behaved: what each wrote and
\* the code it exited with
Behaved(rs) ==
  {[key |-> rs[i].key, type |-> rs[i].inv.type, runner |-> rs[i].inv.runner,
    rc |-> rs[i].rc, wrote |-> rs[i].wrote] : i \in 1..Len(rs)}

\* the invocations of the run whose log is rs, in order
Invocations(rs) == [i \in 1..Len(rs) |-> rs[i].inv]

\* the second run has completed, and the downloads and the children of both
\* runs behaved alike
SameInputs ==
  /\ first.done
  /\ pc = "done"
  /\ Elems(dls) = Elems(first.dls)
  /\ Behaved(runs) = Behaved(first.runs)

\* two runs that resolved and walked alike made the same invocations: the
\* order in which dicts are iterated left aside
SameWalkSameInvocations ==
  (SameInputs /\ NodeOrder = first.nodes /\ calls = first.calls)
    => Invocations(runs) = Invocations(first.runs)

\* C20: two completed runs on the same root manifest, index and target
\* resolve the nodes in the same order and invoke the same commands in the
\* same order with the same arguments and environment.
C20_Deterministic ==
  SameInputs =>
    /\ NodeOrder = first.nodes
    /\ calls = first.calls
    /\ Invocations(runs) = Invocations(first.runs)

\* the declarations of the crate object at place i of the heap have been
\* expanded, or are being expanded
Expanded(i) == heap[i].resolved \/ cur.id = i

\* the objects of the heap that are of the name-version k
ObjectsOf(k) == {i \in 1..Len(heap) : Crate_str(heap[i]) = k}

\* C21: of the crate objects made for one name-version, however many were put
\* on the worklist, at most one has its declarations expanded; an object
\* whose expansion starts has a name-version that no object was expanded for.
C21_ExpandedOnce ==
  /\ [](\A i, j \in 1..Len(heap) :
         (Crate_str(heap[i]) = Crate_str(heap[j]) /\ Expanded(i) /\ Expanded(j))
            => i = j)
  /\ [][(cur = NoCrate /\ cur' # NoCrate) =>
          (/\ ~heap[cur'.id].resolved
           /\ ~has_key(CRATES, Crate_str(heap[cur'.id]))
           /\ \A j \in ObjectsOf(Crate_str(heap[cur'.id])) : ~heap[j].resolved)]_vars

\* resolution is over, and a name-version that was put on the worklist as two
\* objects has one of them expanded
C21_Witness ==
  /\ pc = "build"
  /\ \E i, j \in 1..Len(heap) :
       /\ i # j
       /\ Crate_str(heap[i]) = Crate_str(heap[j])
       /\ heap[i].resolved
       /\ ~heap[j].resolved
       /\ heap[i].dep_info # <<>>

\* a step that downloads an archive
Downloading == Len(dls') = Len(dls) + 1

\* C22: no archive is downloaded twice in a run, and none is downloaded for
\* a name-version that is unpacked in the target directory or in the
\* registry.
C22_FetchedOnce ==
  /\ [](\A i, j \in 1..Len(dls) : dls[i].dir = dls[j].dir => i = j)
  /\ [][Downloading =>
          (/\ dls'[Len(dls')].dir \notin disk.dirs
           /\ ~has_key(CRATES, dls'[Len(dls')].dir))]_vars

\* a name-version was asked for a second time, which made a second object
\* of its directory, and was downloaded once
C22_Witness ==
  \E i, j \in 1..Len(heap) :
    /\ i # j
    /\ heap[i].dir = heap[j].dir
    /\ \E n \in 1..Len(dls) : dls[n].dir = heap[i].dir

\* the name-versions of the index
IndexKeys ==
  UNION {{cname(n, idir[n][i].vers) : i \in 1..Len(idir[n])} : n \in DOMAIN idir}

\* the name-versions whose expansion has started
Started == Len(CRATES) + (IF cur = NoCrate THEN 0 ELSE 1)

\* what is left to do before the next expansion starts: the declarations of
\* the crate being expanded count twice, as each may add to the worklist
Pending ==
  Len(UNRESOLVED)
    + (IF cur = NoCrate THEN 0
       ELSE 1 + 2 * (Len(heap[cur.id].dep_info) + 1 - cur.di))

\* C23: the loop over the worklist comes to an end, also when declarations
\* form a cycle: every step of it starts the expansion of one more
\* name-version, of which there are no more than the index has and the
\* root, or leaves less to do before the next one starts; and the build
\* starts with the worklist empty.
C23_ResolutionTerminates ==
  /\ [][(pc = "resolve" /\ pc' = "resolve") =>
          \/ Started' > Started
          \/ Started' = Started /\ Pending' < Pending]_vars
  /\ [](Started <= Cardinality(IndexKeys) + 1)
  /\ [](pc = "build" => UNRESOLVED = <<>>)

\* resolution is over in a world where a package depends on itself, or two
\* on each other
C23_Witness ==
  /\ pc = "build"
  /\ UNRESOLVED = <<>>
  /\ \E i, j \in 1..Len(heap) :
       /\ heap[i].resolved
       /\ heap[j].resolved
       /\ has_key(heap[i].deps, Crate_str(heap[j]))
       /\ has_key(heap[j].deps, Crate_str(heap[i]))

\* a step that runs a child process
Invoking == Len(runs') = Len(runs) + 1

\* the environment the registry node of key k exports
ExportedEnv(hp, k) == hp[dict_get(CRATES, k)].env

\* C24: when a child process is run for a package, every direct dependency
\* of the package that is in the registry is recorded as built; and what a
\* package recorded as built exports does not change any more.
C24_DependenciesBuiltFirst ==
  /\ [][Invoking =>
          \A k \in DepKeys(runs'[Len(runs')].key) : has_key(BUILT, k)]_vars
  /\ [][\A n \in 1..Len(CRATES) :
          has_key(BUILT, CRATES[n].key) =>
            ExportedEnv(heap', CRATES[n].key) = ExportedEnv(heap, CRATES[n].key)]_vars

\* a child process was run for a package with a dependency that had exported
\* something
C24_Witness ==
  \E i \in 1..Len(runs) :
    \E k \in DepKeys(runs[i].key) :
      /\ k # runs[i].key
      /\ has_key(BUILT, k)
      /\ ExportedEnv(heap, k) # <<>>

\* the child processes run for the name-version k
RunsOf(k) == {i \in 1..Len(runs) : runs[i].key = k}

\* the number of child processes the build targets of crate p call for: the
\* compiler for each, and its binary for a build script
Wanted(p) ==
  Len(p.build)
    + Cardinality({i \in 1..Len(p.build) : p.build[i].type = "build_script"})

\* every child process of the name-version k has run and exited with 0
AllRan(k) ==
  /\ Cardinality(RunsOf(k)) = Wanted(Node(k))
  /\ \A i \in RunsOf(k) : runs[i].rc = 0

\* the name-version recorded as built by this step
Recorded == BUILT'[Len(BUILT')].key

\* a node is put in the registry by the crate whose expansion has gone
\* through every declaration, in a run that has not failed
RegisteredAfterExpansion ==
  [][CRATES' # CRATES =>
       /\ pc' = "resolve"
       /\ cur # NoCrate
       /\ cur.di > Len(heap[cur.id].dep_info)
       /\ CRATES'[Len(CRATES')].key = Crate_str(heap[cur.id])]_vars

Blank == {" ", "\t"}

Tagged(l) == Len(l) > 6 /\ SubSeq(l, 1, 6) = <<"c", "a", "r", "g", "o", ":">>

\* where the first = after the tag is, 0 if there is none
EqualsAt(l) ==
  IF \E i \in 7..Len(l) : l[i] = "="
  THEN CHOOSE i \in 7..Len(l) : l[i] = "=" /\ \A j \in 7..(i - 1) : l[j] # "="
  ELSE 0

\* tag:key=value
KeyValue(l) ==
  /\ Tagged(l)
  /\ EqualsAt(l) > 7
  /\ EqualsAt(l) < Len(l)
  /\ \A j \in 7..(EqualsAt(l) - 1) : l[j] \notin Blank

\* tag:key
KeyOnly(l) ==
  /\ Tagged(l)
  /\ EqualsAt(l) = 0
  /\ \A j \in 7..Len(l) : l[j] \notin Blank

KeyOf(l) == SubSeq(l, 7, EqualsAt(l) - 1)

ValueOf(l) == SubSeq(l, EqualsAt(l) + 1, Len(l))

FlagKeys ==
  {<<"r", "u", "s", "t", "c", "-", "l", "i", "n", "k", "-", "l", "i", "b">>, <<"r", "u", "s", "t", "c", "-", "l", "i", "n", "k", "-", "s", "e", "a", "r", "c", "h">>, <<"r", "u", "s", "t", "c", "-", "c", "f", "g">>}

\* the flag a line appends, if any
FlagOf(l) ==
  IF ~KeyValue(l) THEN <<>>
  ELSE IF KeyOf(l) = <<"r", "u", "s", "t", "c", "-", "l", "i", "n", "k", "-", "l", "i", "b">> THEN <<<<"-", "l">>, ValueOf(l)>>
  ELSE IF KeyOf(l) = <<"r", "u", "s", "t", "c", "-", "l", "i", "n", "k", "-", "s", "e", "a", "r", "c", "h">> THEN <<<<"-", "L">>, ValueOf(l)>>
  ELSE IF KeyOf(l) = <<"r", "u", "s", "t", "c", "-", "c", "f", "g">> THEN <<<<"-", "-", "c", "f", "g">>, ValueOf(l)>>
  ELSE <<>>

\* the flags of the lines ls, in the order of the lines
RECURSIVE FlagsOf(_)
FlagsOf(ls) == IF ls = <<>> THEN <<>> ELSE FlagOf(Head(ls)) \o FlagsOf(Tail(ls))

\* the feature-style variable of the cfg value v
FeatureVar(v) == <<"CARGO_FEATURE_">> \o replace(upper(v), "-", "_")

\* the places of the lines of ls that export their key
Exporting(ls) ==
  {i \in 1..Len(ls) : KeyValue(ls[i]) /\ KeyOf(ls[i]) \notin FlagKeys}

\* the keys of the dict d
Keys(d) == {d[i].key : i \in 1..Len(d)}

\* C27: of lines that are tag:key=value lines or no protocol lines at all,
\* the runner returns without an error the flags of the link-lib,
\* link-search and cfg lines in the order of the lines, a feature-style
\* variable for every cfg line, and every other key with the value of its
\* last line; the other lines add nothing.
C27_ProtocolMapping ==
  (script.done /\ \A i \in 1..Len(script.lines) : ~KeyOnly(script.lines[i])) =>
    /\ ~Raised(script.ret)
    /\ script.ret.cmd = FlagsOf(script.lines)
    /\ Keys(script.ret.env) =
         {FeatureVar(ValueOf(script.lines[i])) :
            i \in {j \in 1..Len(script.lines) :
                     /\ KeyValue(script.lines[j])
                     /\ KeyOf(script.lines[j]) = <<"r", "u", "s", "t", "c", "-", "c", "f", "g">>}}
    /\ Keys(script.ret.denv) =
         {KeyOf(script.lines[i]) : i \in Exporting(script.lines)}
    /\ \A i \in Exporting(script.lines) :
         (\A j \in Exporting(script.lines) :
            KeyOf(script.lines[j]) = KeyOf(script.lines[i]) => j <= i)
           => dict_get(script.ret.denv, KeyOf(script.lines[i]))
                = ValueOf(script.lines[i])

\* a search path, a line that is no protocol line and a cfg line were read
C27_Witness ==
  /\ script.done
  /\ script.lines = <<<<"c", "a", "r", "g", "o", ":", "r", "u", "s", "t", "c", "-", "l", "i", "n", "k", "-", "s", "e", "a", "r", "c", "h", "=", "/", "p">>, <<"w", "a", "r", "n", "i", "n", "g", ":", " ", "x", "=", "y">>,
                      <<"c", "a", "r", "g", "o", ":", "r", "u", "s", "t", "c", "-", "c", "f", "g", "=", "f", "-", "x">>>>
  /\ script.ret.cmd = <<<<"-", "L">>, <<"/", "p">>, <<"-", "-", "c", "f", "g">>, <<"f", "-", "x">>>>
  /\ Keys(script.ret.env) = {<<"CARGO_FEATURE_">> \o <<"F", "_", "X">>}

\* the lines the build-script binaries of the package of run j wrote before
\* run j, in order
RECURSIVE WroteBefore(_, _)
WroteBefore(j, i) ==
  IF i >= j THEN <<>>
  ELSE (IF runs[i].key = runs[j].key /\ runs[i].call = runs[j].call
           /\ runs[i].inv.runner = "script"
        THEN runs[i].wrote ELSE <<>>) \o WroteBefore(j, i + 1)

\* the crate of run j has a build script, and run j compiles another target
AfterScript(j) ==
  /\ runs[j].inv.type # "build_script"
  /\ \E n \in 1..Len(Node(runs[j].key).build) :
       Node(runs[j].key).build[n].type = "build_script"

\* C26: the build script of a package is compiled and its binary run before
\* any other target of the package is compiled, and every child process of a
\* package is handed the flags of what the build-script binaries of that
\* package wrote before it, in the order written, and no other flags.
C26_ScriptFlagsThreaded ==
  \A j \in 1..Len(runs) :
    /\ AfterScript(j) =>
         \E i, k \in 1..(j - 1) :
           /\ i < k
           /\ runs[i].key = runs[j].key
           /\ runs[k].key = runs[j].key
           /\ runs[i].inv.runner = "rustc"
           /\ runs[i].inv.type = "build_script"
           /\ runs[k].inv.runner = "script"
    /\ runs[j].inv.args = FlagsOf(WroteBefore(j, 1))

\* the declaration the loop of resolve() is at
Declaration == heap[cur.id].dep_info[cur.di]

\* the turn of the loop adds an edge to the crate being resolved
AddsEdge ==
  /\ pc = "resolve"
  /\ cur # NoCrate
  /\ cur.di <= Len(heap[cur.id].dep_info)
  /\ Len(heap') >= cur.id
  /\ Len(heap'[cur.id].deps) > Len(heap[cur.id].deps)

\* the features of the edge added
EdgeFeatures == Elems(heap'[cur.id].deps[Len(heap'[cur.id].deps)].val)

\* the features the declaration names
Requested == {f \in Elems(Declaration.features) : Len(f) > 0}

\* C28: the features of an edge contain every feature its declaration
\* requests, and "default" unless the declaration disables the defaults; with
\* the defaults disabled and nothing requested the edge has no features.
C28_RequestedFeaturesActivated ==
  [][AddsEdge =>
       /\ Requested \subseteq EdgeFeatures
       /\ Declaration.default_features =>
            <<"d", "e", "f", "a", "u", "l", "t">> \in EdgeFeatures
       /\ (~Declaration.default_features /\ Requested = {}) =>
            EdgeFeatures = {}]_vars

\* the loop of resolve() is at a declaration of another kind than normal or
\* build
AtOtherKind ==
  /\ pc = "resolve"
  /\ cur # NoCrate
  /\ cur.di <= Len(heap[cur.id].dep_info)
  /\ Declaration.kind \notin {"normal", "build"}

\* C29: a declaration whose kind is neither normal nor build is passed over:
\* the turn of the loop fetches nothing, creates no crate, adds nothing to the
\* worklist and no edge, does not fail, and goes on to the next declaration
\* of the same crate.
C29_OtherKindsSkipped ==
  [][AtOtherKind =>
       /\ cur' = [cur EXCEPT !.di = @ + 1]
       /\ UNCHANGED <<heap, UNRESOLVED, disk, dls, pc>>]_vars

\* a crate with a dev declaration of d and a later declaration of c has been
\* resolved: it has an edge to c and none to d
C29_Witness ==
  \E i \in 1..Len(heap) :
    /\ heap[i].resolved
    /\ Len(heap[i].dep_info) > 1
    /\ heap[i].dep_info[1].kind = "dev"
    /\ heap[i].dep_info[1].name = <<"d">>
    /\ \E n \in 1..Len(heap[i].deps) : Head(heap[i].deps[n].key) = "c"
    /\ \A n \in 1..Len(heap[i].deps) : Head(heap[i].deps[n].key) # "d"

\* the list 'deps' of the record the lookup chose
DepsOfFound ==
  idir[<<"d">>][CHOOSE i \in 1..Len(idir[<<"d">>]) :
                  idir[<<"d">>][i].vers = found.info.ver].deps

\* the entry declares no target, or the target of the run
Unrestricted(x) == x.target \in {"absent", "null"}

\* C30: of the dependency entries of the record chosen, the lookup returns
\* those that declare no target restriction or the target of the run, in
\* their order, leaves out those that declare another target, and does not
\* fail for them.
C30_TargetFilter ==
  (found.done /\ ~Raised(found.info)) =>
    found.info.deps =
      SelectSeq(DepsOfFound,
                LAMBDA x : Unrestricted(x) \/ x.target = TARGET)

\* the loop of resolve() is at a declaration it does not skip
AtDeclaration ==
  /\ pc = "resolve"
  /\ cur # NoCrate
  /\ cur.di <= Len(heap[cur.id].dep_info)
  /\ Declaration.kind \in {"normal", "build"}
  /\ ~Declaration.optional

\* the crate being resolved has an edge to a version of the package named
EdgeTo(hp, name) ==
  \E n \in 1..Len(hp[cur.id].deps) :
    SubSeq(hp[cur.id].deps[n].key, 1, Len(name) + 1) = name \o <<"-">>

\* C31: a manifest, version, range or index record that cannot be read ends
\* the run with exit code 1: no turn of the loop of resolve() goes on to the
\* next declaration without the crate having an edge to the package the
\* declaration names.
C31_MalformedIsFatal ==
  [][(AtDeclaration /\ cur' # cur) =>
       (pc' = "resolve" /\ EdgeTo(heap', Declaration.name))]_vars

\* the number of edges on a shortest path from the root to the registry
\* node k
Depth(k) ==
  CHOOSE n \in 0..Len(CRATES) :
    /\ k \in ReachFrom({CRATES[1].key}, n)
    /\ n = 0 \/ k \notin ReachFrom({CRATES[1].key}, n - 1)

\* C32: the worklist is first in, first out: it changes only by an append at
\* its end or by the removal of its first entry, the crate whose resolve()
\* is then called is that first entry, and so the registry, which is in the
\* order in which expansions were completed, has no node before a node
\* nearer to the root.
C32_WorklistFifo ==
  /\ [][UNRESOLVED' # UNRESOLVED =>
          \/ /\ UNRESOLVED # <<>>
             /\ UNRESOLVED' = Tail(UNRESOLVED)
             /\ cur' \in {NoCrate, [id |-> Head(UNRESOLVED), di |-> 1]}
          \/ /\ Len(UNRESOLVED') = Len(UNRESOLVED) + 1
             /\ SubSeq(UNRESOLVED', 1, Len(UNRESOLVED)) = UNRESOLVED]_vars
  /\ [](pc \in {"build", "done"} =>
          \A i, j \in 1..Len(CRATES) :
            i < j => Depth(CRATES[i].key) <= Depth(CRATES[j].key))

\* resolution has ended with nodes at three depths below the root: the last
\* node completed is at depth 3, after one at depth 2
C32_Witness ==
  /\ pc = "build"
  /\ Len(CRATES) >= 4
  /\ Depth(CRATES[Len(CRATES)].key) = 3
  /\ \E i \in 1..Len(CRATES) : Depth(CRATES[i].key) = 2

\* what the build() call of frame f has left to do itself: the turns of its
\* two loops and the steps between them
FrameRank(f) ==
  IF f.stage = "run" THEN 1 + Len(f.cmds)
  ELSE IF f.stage = "deps" THEN 2 + 2 * Len(heap[f.id].build) + Len(f.todo)
  ELSE 3 + 2 * Len(heap[f.id].build) + Len(heap[f.id].deps)

\* more than any build() call has to do itself
RankBase ==
  4 + CHOOSE m \in 0..(4 * (Len(heap) + 1)) :
        /\ \A i \in 1..Len(heap) :
             2 * Len(heap[i].build) + Len(heap[i].deps) <= m
        /\ \E i \in 1..Len(heap) :
             2 * Len(heap[i].build) + Len(heap[i].deps) = m

\* what the calls in progress have left to do, the outer calls weighing more
RECURSIVE RankFrom(_, _)
RankFrom(st, i) ==
  IF i > Len(st) THEN 0
  ELSE FrameRank(st[i]) * RankBase ^ (MaxDepth - i) + RankFrom(st, i + 1)

BuildRank == RankFrom(stack, 1)

\* C33: the build of the root package comes to an end, also when two nodes
\* of the registry depend on each other: build() calls nest no deeper than
\* the interpreter allows, and every step of the build either ends the run
\* or leaves less to do to the calls in progress.
C33_BuildTerminates ==
  /\ [][(pc = "build" /\ pc' = "build") =>
          (BuildRank' < BuildRank /\ stack' # <<>>)]_vars
  /\ [](pc = "build" =>
          /\ Len(stack) \in 1..MaxDepth
          /\ \A i \in 1..Len(stack) : FrameRank(stack[i]) \in 1..(RankBase - 1))

\* b and d depend on each other, and the build has ended at the depth of
\* calls the interpreter allows
C33_Witness ==
  /\ pc = "failed"
  /\ Len(stack) = MaxDepth
  /\ \E i, j \in 1..Len(heap) :
       /\ i # j
       /\ has_key(CRATES, Crate_str(heap[i]))
       /\ has_key(CRATES, Crate_str(heap[j]))
       /\ has_key(heap[i].deps, Crate_str(heap[j]))
       /\ has_key(heap[j].deps, Crate_str(heap[i]))

\* the name-versions recorded as built, and those of the registry
BuiltKeys == {BUILT[i].key : i \in 1..Len(BUILT)}

RegistryKeys == {CRATES[i].key : i \in 1..Len(CRATES)}

\* C34: when a run has ended well, the name-versions recorded as built are
\* those of the registry: every resolved package has been built, and nothing
\* else.
C34_BuiltIsRegistry == pc = "done" => BuiltKeys = RegistryKeys

\* a run has ended well with the root, b, c and d in the registry, d being
\* a dependency of both b and c
C34_Witness ==
  /\ pc = "done"
  /\ Cardinality(RegistryKeys) >= 4
  /\ \E i, j \in 1..Len(heap) :
       /\ i # j
       /\ heap[i].resolved
       /\ heap[j].resolved
       /\ \E k \in RegistryKeys :
            has_key(heap[i].deps, k) /\ has_key(heap[j].deps, k)

\* C35: when the loop over the worklist has ended, every node of the
\* registry is flagged resolved, and every dependency edge of a node of the
\* registry names a name-version that is in the registry.
C35_GraphClosed ==
  pc \in {"build", "done"} =>
    \A k \in RegistryKeys :
      /\ Node(k).resolved
      /\ \A n \in 1..Len(Node(k).deps) : Node(k).deps[n].key \in RegistryKeys

\* the build has started on a registry of four nodes, one of them with two
\* edges
C35_Witness ==
  /\ pc = "build"
  /\ Cardinality(RegistryKeys) >= 4
  /\ \E k \in RegistryKeys : Len(Node(k).deps) >= 2

\* a child process is run in the step
Invoked == Len(runs') > Len(runs)

\* the run the step adds
NewRun == runs'[Len(runs')]

\* the number of the first build() call for the name-version key
FirstCall(key) ==
  CHOOSE i \in 1..Len(calls) :
    calls[i] = key /\ \A j \in 1..(i - 1) : calls[j] # key

\* the features of the edge over which the innermost build() was called
TriggeringEdge ==
  dict_get(heap[stack[Len(stack) - 1].id].deps, Crate_str(Self))

\* C36: every child process run for a package is run by the first build()
\* call for it, and the compiler gets as features exactly those of the edge
\* over which that call was made, whatever the other edges to the package
\* carry.
C36_FirstEdgeFeatures ==
  [][Invoked =>
       /\ NewRun.call = FirstCall(NewRun.key)
       /\ (Len(stack) > 1 /\ NewRun.inv.runner = "rustc") =>
            NewRun.inv.cmd.cfg = TriggeringEdge]_vars

\* d has been compiled once, and a node of the registry has an edge to d
\* with other features than d was compiled with
C36_Witness ==
  /\ pc = "done"
  /\ \E i \in 1..Len(runs) :
       /\ Head(runs[i].key) = "d"
       /\ runs[i].inv.runner = "rustc"
       /\ \A j \in 1..Len(runs) :
            runs[j].key = runs[i].key => runs[j].call = runs[i].call
       /\ \E k \in RegistryKeys :
            /\ has_key(Node(k).deps, runs[i].key)
            /\ Elems(dict_get(Node(k).deps, runs[i].key))
                 # Elems(runs[i].inv.cmd.cfg)
       /\ \E n \in 1..Len(calls) : n # runs[i].call /\ calls[n] = runs[i].key

\* C37: the comparison sv1 < sv2 of two versions that parse gives True or
\* False: it never ends in the RuntimeError 'PreRelease __lt__ failed'.
C37_LessThanIsBoolean == cmp.done => cmp.lt \in {"True", "False"}

\* what lower() or upper() gave is a version
IsVersion(b) == ~Raised(b) /\ b # PyNone /\ b # ValueError

====
